---- MODULE Spec2Model ----
(***************************************************************************)
(* StoryBoardAI: the panel store with undo/redo history (useHistory in     *)
(* App.tsx) and the per-panel generation handlers of Storyboard.tsx.       *)
(*                                                                         *)
(* The history hook keeps three React state cells (state, past, future).   *)
(* Its operations do not assign them: they queue updater functions, and    *)
(* some updaters queue further updaters while they run.  The model keeps   *)
(* that structure: an operation dispatches updates into per-cell queues    *)
(* and Render works the queues off in hook order, pass after pass, until   *)
(* they are empty.  An action is one event (a click or the continuation    *)
(* of an await) together with the render that follows it.                  *)
(***************************************************************************)
EXTENDS Integers, Sequences, FiniteSets, TLC

VARIABLES
  state,        \* useHistory: const [state, _setState]   (the panel collection)
  past,         \* useHistory: const [past, setPast]
  future,       \* useHistory: const [future, setFuture]
  ops,          \* per panel id, the image operations awaiting their external call
  isAnalyzing,  \* App: const [isAnalyzing, setIsAnalyzing]
  stamp,        \* number of analyses completed (stands for Date.now() in panel ids)
  lastOp,       \* observer: the operation performed by the last step, with its arguments
  pre,          \* observer: the collection visible before the most recent setPanels call,
                \*           as long as no redo has followed it
  und,          \* observer: the collection visible before the undo, in the step of an undo
                \*           that found past non-empty and in the step right after it
  base,         \* observer: the collection installed by the last analysis (<<>> before the first)
  vops,         \* per panel id, the video operations awaiting their external call
  audio,        \* per panel id, where its narration request is: idle, speech, playing
  isGeneratingAnimatic,  \* Storyboard: const [isGeneratingAnimatic, setIsGeneratingAnimatic]
  animaticUrl,  \* Storyboard: const [animaticUrl, setAnimaticUrl]
  animaticReq,  \* the animatic request awaiting the video capability, if any
  fx,           \* what the last step showed the user: alerts raised, onApiKeyError calls
  characters,   \* App: const [characters, setCharacters]   (the character registry)
  script,       \* App: const [script, setScript]
  isImporting,  \* App: const [isImporting, setIsImporting]
  upload,       \* the files whose parseFile call is awaited by handleFileUpload
  analysis,     \* whether an analyzeScript call is awaited by handleAnalyze: idle, pending
  call,         \* observer: the function evaluated last, its input and its result
  poll,         \* per panel id, where the polling loop of its video call is
  isMuted,      \* LiveAssistant: const [isMuted, setIsMuted]
  isConnected,  \* LiveAssistant: const [isConnected, setIsConnected]
  live          \* the live session: its status and the isMuted its callbacks closed over

mediaVars == <<vops, audio, isGeneratingAnimatic, animaticUrl, animaticReq>>

registryVars == <<characters, script, isImporting, upload, analysis, call>>

liveVars == <<isMuted, isConnected, live>>

sideVars == <<poll, isMuted, isConnected, live>>

appVars == <<characters, script, isImporting, upload, analysis, call,
             poll, isMuted, isConnected, live>>

vars == <<state, past, future, ops, isAnalyzing, stamp, lastOp, pre, und, base,
          vops, audio, isGeneratingAnimatic, animaticUrl, animaticReq, fx,
          characters, script, isImporting, upload, analysis, call,
          poll, isMuted, isConnected, live>>

\* ---------------------------------------------------------------- bounds
MaxHist == 3       \* no handler is started once past holds this many snapshots
MaxRunHist == 5    \* the same in the runs explored without undo and redo
MaxSide == 4       \* source images of 1..MaxSide pixels a side (and the 100 x 100 one)
MaxChunks == 10    \* audio chunks followed per live session

\* ---------------------------------------------------------------- data
PanelCounts == {0, 1}           \* panels returned by one analysis (0: empty or malformed response)
PanelNumbers == {1, 2, 3, 4}    \* the positions a panel can have in any collection explored
Stamps == {1, 2}                \* the analyses of one run (each stands for its Date.now())
NoUrl == 0                      \* imageUrl / videoUrl undefined
Urls == {1}                     \* the media references the image capability returns
Transitions == {"Cut"}          \* the values of TransitionType the model selects
NoTransition == "unset"         \* panel.transition undefined (analysis does not set it)
ImageKinds == {"generate", "edit", "outpaint"}

Last(s) == s[Len(s)]
Front(s) == SubSeq(s, 1, Len(s) - 1)

\* analyzeScript: data.panels.map((item, index) => ({...item, id, flags false}))
NewPanel(t, index) ==
  [ id                |-> t * 10 + index,
    panelNumber       |-> index,
    imageUrl          |-> NoUrl,
    videoUrl          |-> NoUrl,
    transition        |-> NoTransition,
    isGeneratingImage |-> FALSE,
    isGeneratingVideo |-> FALSE,
    isPlayingAudio    |-> FALSE ]

AnalysisPanels(t, n) == [i \in 1..n |-> NewPanel(t, i)]

\* Text is a sequence of tokens; '' is the empty sequence.
NoText == <<>>

\* CharacterProfile
Character(name, description) == [name |-> name, description |-> description]

\* data.characters of a response with n panels: one character per panel
AnalysisCharacters(n) ==
  [i \in 1..n |-> Character(<< IF i = 1 THEN "A" ELSE "B" >>, <<"x">>)]

PanelIds(coll) == {coll[i].id : i \in 1..Len(coll)}

PanelOf(coll, pid) == coll[CHOOSE i \in 1..Len(coll) : coll[i].id = pid]

\* ------------------------------------------------- updaters of the handlers
\* The closures handed to setPanels.  A closure is described by its kind and
\* the values it captured: the panel id, the settled media reference, the
\* transition.
Fn(kind, id, url, t) == [kind |-> kind, id |-> id, url |-> url, t |-> t]

\* { ...p, isGeneratingImage: true }
FlagImage(p) == [p EXCEPT !.isGeneratingImage = TRUE]

\* a settlement that writes the result and leaves the flag as it is
SettleImageKeepsFlag(p, url) == [p EXCEPT !.imageUrl = url]

\* a settlement that writes its result only while the flag is still set
SettleImageFirstWins(p, url) ==
  [p EXCEPT !.imageUrl = IF p.isGeneratingImage THEN url ELSE @,
            !.isGeneratingImage = FALSE]

\* { ...p, imageUrl: imageUrl || undefined, isGeneratingImage: false }
\* (a null result of the service is url = NoUrl)
SettleImage(p, url) == [p EXCEPT !.imageUrl = url, !.isGeneratingImage = FALSE]

\* { ...p, isGeneratingVideo: true }
FlagVideo(p) == [p EXCEPT !.isGeneratingVideo = TRUE]

\* { ...p, videoUrl: videoUrl || undefined, isGeneratingVideo: false }
SettleVideo(p, url) == [p EXCEPT !.videoUrl = url, !.isGeneratingVideo = FALSE]

\* the catch branch: { ...p, isGeneratingVideo: false }
ClearVideoFlag(p) == [p EXCEPT !.isGeneratingVideo = FALSE]

\* { ...p, isPlayingAudio: true }
FlagAudio(p) == [p EXCEPT !.isPlayingAudio = TRUE]

\* { ...p, isPlayingAudio: false }
ClearAudioFlag(p) == [p EXCEPT !.isPlayingAudio = FALSE]

\* { ...p, transition }
SetTransition(p, t) == [p EXCEPT !.transition = t]

\* a map that changes every panel, whatever its id
ApplyFnToAll(fn, prev) ==
  [i \in 1..Len(prev) |->
     CASE fn.kind = "flagImage"   -> FlagImage(prev[i])
       [] fn.kind = "settleImage" -> SettleImage(prev[i], fn.url)
       [] OTHER -> prev[i]]

\* prev.map(p => p.id === id ? <changed p> : p)
ApplyFn(fn, prev) ==
  [i \in 1..Len(prev) |->
     IF prev[i].id = fn.id
     THEN CASE fn.kind = "flagImage"   -> FlagImage(prev[i])
            [] fn.kind = "settleImage" -> SettleImage(prev[i], fn.url)
            [] fn.kind = "transition"  -> SetTransition(prev[i], fn.t)
            [] fn.kind = "flagVideo"   -> FlagVideo(prev[i])
            [] fn.kind = "settleVideo" -> SettleVideo(prev[i], fn.url)
            [] fn.kind = "clearVideo"  -> ClearVideoFlag(prev[i])
            [] fn.kind = "flagAudio"   -> FlagAudio(prev[i])
            [] fn.kind = "clearAudio"  -> ClearAudioFlag(prev[i])
     ELSE prev[i]]

\* the argument of setPanels: a collection or a function of the previous one
ByValue(coll) == [isFn |-> FALSE, fn |-> Fn("none", 0, 0, NoTransition), value |-> coll]

\* a handler that maps over a collection it captured earlier (here the one
\* the last analysis installed) and hands the result to setPanels
ByFnOnSnapshot(fn) == [isFn |-> FALSE, fn |-> fn, value |-> ApplyFn(fn, base)]

ByFn(fn) == [isFn |-> TRUE, fn |-> fn, value |-> <<>>]

\* ------------------------------------------------- React update queues
\* An update waiting in the queue of one state cell.
Upd(u, arg) == [u |-> u, arg |-> arg]

\* What running one update gives: the new value of its cell and the updates
\* it dispatched, while running, to the cells state (es), past (ep), future (ef).
Res(val, es, ep, ef) == [val |-> val, es |-> es, ep |-> ep, ef |-> ef]

\* setState without the setFuture([]) call
SetStateKeepsFuture(newState, currentState) ==
  LET nextState == IF newState.isFn THEN ApplyFn(newState.fn, currentState)
                                    ELSE newState.value
  IN Res(nextState, <<>>, << Upd("append", currentState) >>, <<>>)

\* useHistory.setState, the updater given to _setState
SetStateUpdater(newState, currentState) ==
  LET nextState == IF newState.isFn THEN ApplyFn(newState.fn, currentState)
                                    ELSE newState.value
  IN Res(nextState, <<>>,
         << Upd("append", currentState) >>,     \* setPast(prevPast => [...prevPast, currentState])
         << Upd("value", <<>>) >>)              \* setFuture([])

\* undo putting the old current at the end of future
UndoStateAppendsFuture(previous, currentState) ==
  Res(previous, <<>>, <<>>, << Upd("append", currentState) >>)

\* useHistory.undo, the updater given to _setState
UndoStateUpdater(previous, currentState) ==
  Res(previous, <<>>, <<>>, << Upd("prepend", currentState) >>)

\* undo going back to the oldest entry of past
UndoPastTakesOldest(prevPast) ==
  IF Len(prevPast) = 0 THEN Res(prevPast, <<>>, <<>>, <<>>)
  ELSE Res(Tail(prevPast), << Upd("undoState", Head(prevPast)) >>, <<>>, <<>>)

\* useHistory.undo, the updater given to setPast
UndoPastUpdater(prevPast) ==
  IF Len(prevPast) = 0 THEN Res(prevPast, <<>>, <<>>, <<>>)
  ELSE Res(Front(prevPast), << Upd("undoState", Last(prevPast)) >>, <<>>, <<>>)

\* redo putting the old current at the front of past
RedoStatePrependsPast(next, currentState) ==
  Res(next, <<>>, << Upd("prepend", currentState) >>, <<>>)

\* useHistory.redo, the updater given to _setState
RedoStateUpdater(next, currentState) ==
  Res(next, <<>>, << Upd("append", currentState) >>, <<>>)

\* redo taking the last entry of future
RedoFutureTakesLast(prevFuture) ==
  IF Len(prevFuture) = 0 THEN Res(prevFuture, <<>>, <<>>, <<>>)
  ELSE Res(Front(prevFuture), << Upd("redoState", Last(prevFuture)) >>, <<>>, <<>>)

\* useHistory.redo, the updater given to setFuture
RedoFutureUpdater(prevFuture) ==
  IF Len(prevFuture) = 0 THEN Res(prevFuture, <<>>, <<>>, <<>>)
  ELSE Res(Tail(prevFuture), << Upd("redoState", Head(prevFuture)) >>, <<>>, <<>>)

\* React's basicStateReducer for an update of cell `hook` whose value is cur
Reduce(hook, upd, cur) ==
  CASE upd.u = "value"    -> Res(upd.arg, <<>>, <<>>, <<>>)
    [] upd.u = "setState" -> SetStateUpdater(upd.arg, cur)
    [] upd.u = "undoState" -> UndoStateUpdater(upd.arg, cur)
    [] upd.u = "redoState" -> RedoStateUpdater(upd.arg, cur)
    [] upd.u = "append"   -> Res(Append(cur, upd.arg), <<>>, <<>>, <<>>)
    [] upd.u = "undoPast" -> UndoPastUpdater(cur)
    [] upd.u = "prepend"  -> Res(<<upd.arg>> \o cur, <<>>, <<>>, <<>>)
    [] upd.u = "redoFuture" -> RedoFutureUpdater(cur)

\* The three cells with their queues; pos is the hook the render pass is at
\* (1 state, 2 past, 3 future: the order of the useState calls).
Cells(s, p, f) == [s |-> s, p |-> p, f |-> f, qs |-> <<>>, qp |-> <<>>, qf |-> <<>>, pos |-> 1]

\* One render of App.  A pass visits the hooks in order and runs the queue
\* of each; an update dispatched while rendering joins the queue of its
\* cell, is run in this pass if the pass has not reached that hook yet, and
\* makes React render again if it has.
RECURSIVE Render(_)
RenderPass(c) ==
  IF c.pos = 1 THEN
    IF c.qs # <<>> THEN
      LET r == Reduce("state", Head(c.qs), c.s)
      IN Render([c EXCEPT !.s = r.val, !.qs = Tail(c.qs) \o r.es,
                          !.qp = c.qp \o r.ep, !.qf = c.qf \o r.ef])
    ELSE Render([c EXCEPT !.pos = 2])
  ELSE IF c.pos = 2 THEN
    IF c.qp # <<>> THEN
      LET r == Reduce("past", Head(c.qp), c.p)
      IN Render([c EXCEPT !.p = r.val, !.qp = Tail(c.qp) \o r.ep,
                          !.qs = c.qs \o r.es, !.qf = c.qf \o r.ef])
    ELSE Render([c EXCEPT !.pos = 3])
  ELSE
    IF c.qf # <<>> THEN
      LET r == Reduce("future", Head(c.qf), c.f)
      IN Render([c EXCEPT !.f = r.val, !.qf = Tail(c.qf) \o r.ef,
                          !.qs = c.qs \o r.es, !.qp = c.qp \o r.ep])
    ELSE IF c.qs = <<>> /\ c.qp = <<>> THEN c
    ELSE Render([c EXCEPT !.pos = 1])

\* the render from cells c; the cells are worked out once per step of the
\* pass, also where an ENABLED is evaluated
Render(c) == CHOOSE r \in {RenderPass(v) : v \in {c}} : TRUE

\* dispatchSetState with updates already pending on the component: the
\* update is queued and its updater runs in the next render.
Enqueue(c, hook, upd) ==
  CASE hook = "state"  -> [c EXCEPT !.qs = Append(c.qs, upd)]
    [] hook = "past"   -> [c EXCEPT !.qp = Append(c.qp, upd)]
    [] hook = "future" -> [c EXCEPT !.qf = Append(c.qf, upd)]

CellOf(c, hook) ==
  CASE hook = "state" -> c.s [] hook = "past" -> c.p [] hook = "future" -> c.f

RECURSIVE DispatchAll(_, _, _)
\* dispatchSetState with nothing pending on the component: React runs the
\* updater at once against the rendered value (the eager state) and queues
\* the computed value; the updates the updater dispatches while it runs are
\* dispatched the same way, before the outer update is queued.
EagerDispatch(c, hook, upd) ==
  LET r  == Reduce(hook, upd, CellOf(c, hook))
      c1 == DispatchAll(c, "state", r.es)
      c2 == DispatchAll(c1, "past", r.ep)
      c3 == DispatchAll(c2, "future", r.ef)
  IN Enqueue(c3, hook, Upd("value", r.val))

DispatchAll(c, hook, upds) ==
  IF upds = <<>> THEN c
  ELSE DispatchAll(EagerDispatch(c, hook, Head(upds)), hook, Tail(upds))

\* The first dispatch of an event is eager when the component has no update
\* pending from earlier renders, and queued otherwise; every later dispatch
\* of the same event finds the first one pending and is queued.
Dispatch(c, hook, upd, eager) ==
  IF eager /\ c.qs = <<>> /\ c.qp = <<>> /\ c.qf = <<>>
  THEN EagerDispatch(c, hook, upd)
  ELSE Enqueue(c, hook, upd)

\* ------------------------------------------------- operations of useHistory
\* Each takes the cells and gives them back with the operation dispatched.
setState(c, newState, eager) == Dispatch(c, "state", Upd("setState", newState), eager)

undo(c, eager) == Dispatch(c, "past", Upd("undoPast", <<>>), eager)

\* a redo that re-applies two snapshots
redoTwice(c, eager) ==
  Enqueue(Dispatch(c, "future", Upd("redoFuture", <<>>), eager),
          "future", Upd("redoFuture", <<>>))

redo(c, eager) == Dispatch(c, "future", Upd("redoFuture", <<>>), eager)

\* a reset that forgets to clear future
ResetClearsPastOnly(c, eager) == Dispatch(c, "past", Upd("value", <<>>), eager)

\* resetHistory: () => { setPast([]); setFuture([]); }
resetHistory(c, eager) ==
  Enqueue(Dispatch(c, "past", Upd("value", <<>>), eager), "future", Upd("value", <<>>))

canUndo == Len(past) > 0
canRedo == Len(future) > 0

\* ------------------------------------------------- events
\* An event dispatches its updates on the rendered cells and React renders.
Rendered == Cells(state, past, future)

Commit(c) ==
  LET r == Render(c)
  IN /\ state' = r.s
     /\ past' = r.p
     /\ future' = r.f

\* The observers record what happened; no operation reads them.
\* eff tells whether an undo found past non-empty (a redo: future
\* non-empty); direct tells whether an undo came right after a setPanels call.
Op(name, id, url, eff, direct) ==
  [name |-> name, id |-> id, url |-> url, eff |-> eff, direct |-> direct]

SetOps == {"start", "settle", "transition", "analyze",
           "animate", "animateSettle", "animateCatch", "generateAll",
           "play", "audioNone", "audioThrow", "audioEnd", "edit"}

None == [some |-> FALSE, v |-> <<>>]
Some(coll) == [some |-> TRUE, v |-> coll]

\* the record of one evaluation of a service function
Call(fn, in, out) == [fn |-> fn, in |-> in, out |-> out]
NoCall == Call("none", <<>>, <<>>)

\* the live session: status is "none", "connecting", "open" or "closed";
\* muted is the isMuted of the render whose startSession created the
\* callbacks; sent counts the sendRealtimeInput calls of the session
Session(status, muted, sent) == [status |-> status, muted |-> muted, sent |-> sent]
NoSession == Session("none", FALSE, 0)

\* alert(...) calls and onApiKeyError() calls made by one step, and the
\* outcome of the external call the step handled ("none" when it handled none)
Fx(cause, alerts, keyErrors) == [cause |-> cause, alerts |-> alerts, keyErrors |-> keyErrors]
NoFx == Fx("none", 0, 0)

Observe(name, id, url) ==
  /\ lastOp' = Op(name, id, url,
                  CASE name = "undo" -> past # <<>>
                    [] name = "redo" -> future # <<>>
                    [] OTHER -> TRUE,
                  name = "undo" /\ lastOp.name \in SetOps)
  /\ pre' = CASE name \in SetOps -> Some(state)
              [] name = "redo" -> None
              [] OTHER -> pre
  /\ und' = CASE name = "undo" /\ past # <<>> -> Some(state)
              [] name # "undo" /\ lastOp.name = "undo" -> und
              [] OTHER -> None

\* setPanels(prev => ...) called by a handler of Storyboard
setPanels(fn, eager) == Commit(setState(Rendered, ByFn(fn), eager))

\* every id analyzeScript can hand out within the bounds
AllIds == {t * 10 + i : t \in Stamps, i \in PanelNumbers}

InFlight == {id \in AllIds : ops[id] > 0}

\* handleGenerateImage / handleEditImage / handleOutpaintImage up to the await:
\* the flag is set and the external call is issued.  panel is the panel
\* object of the rendered collection the button belongs to.
ImageStart(pid, kind, eager) ==
  /\ pid \in PanelIds(state)
  /\ kind \in {"edit", "outpaint"} => PanelOf(state, pid).imageUrl # NoUrl
  /\ setPanels(Fn("flagImage", pid, NoUrl, NoTransition), eager)
  /\ ops' = [ops EXCEPT ![pid] = @ + 1]
  /\ Observe("start", pid, NoUrl)
  /\ fx' = NoFx
  /\ UNCHANGED <<isAnalyzing, stamp, base>>
  /\ UNCHANGED mediaVars
  /\ UNCHANGED appVars

\* the same where one image operation is started at a time
HandleImageStart(pid, kind, eager) ==
  /\ InFlight = {}
  /\ Len(past) < MaxHist
  /\ ImageStart(pid, kind, eager)

\* the continuation after the await: the service returned url (NoUrl for null)
HandleImageSettle(pid, url, eager) ==
  /\ ops[pid] > 0
  /\ setPanels(Fn("settleImage", pid, url, NoTransition), eager)
  /\ ops' = [ops EXCEPT ![pid] = @ - 1]
  /\ Observe("settle", pid, url)
  /\ fx' = NoFx
  /\ UNCHANGED <<isAnalyzing, stamp, base>>
  /\ UNCHANGED mediaVars
  /\ UNCHANGED appVars

handleTransitionChange(pid, t, eager) ==
  /\ pid \in PanelIds(state)
  /\ Len(past) < MaxHist
  /\ setPanels(Fn("transition", pid, NoUrl, t), eager)
  /\ Observe("transition", pid, NoUrl)
  /\ fx' = NoFx
  /\ UNCHANGED <<ops, isAnalyzing, stamp, base>>
  /\ UNCHANGED mediaVars
  /\ UNCHANGED appVars

\* an undo that drops the image calls in flight
UndoCancelsOperations(eager) ==
  /\ Commit(undo(Rendered, eager))
  /\ ops' = [id \in AllIds |-> 0]
  /\ Observe("undo", 0, NoUrl)
  /\ fx' = NoFx
  /\ UNCHANGED <<isAnalyzing, stamp, base>>
  /\ UNCHANGED mediaVars
  /\ UNCHANGED appVars

\* an undo that also puts the Character Registry back to the analysed one
UndoRevertsRegistry(eager) ==
  /\ Commit(undo(Rendered, eager))
  /\ characters' = AnalysisCharacters(Len(characters))
  /\ Observe("undo", 0, NoUrl)
  /\ fx' = NoFx
  /\ UNCHANGED <<ops, isAnalyzing, stamp, base>>
  /\ UNCHANGED mediaVars
  /\ UNCHANGED <<script, isImporting, upload, analysis, call>>
  /\ UNCHANGED sideVars

\* the undo button and Ctrl+Z.  The button is disabled and the shortcut
\* skipped while canUndo is false; the call with an empty past is kept for
\* the guard of undo itself (if (prevPast.length === 0) return prevPast).
Undo(eager) ==
  /\ Commit(undo(Rendered, eager))
  /\ Observe("undo", 0, NoUrl)
  /\ fx' = NoFx
  /\ UNCHANGED <<ops, isAnalyzing, stamp, base>>
  /\ UNCHANGED mediaVars
  /\ UNCHANGED appVars

\* the redo button and Ctrl+Shift+Z / Ctrl+Y, with an empty future as for undo
Redo(eager) ==
  /\ Commit(redo(Rendered, eager))
  /\ Observe("redo", 0, NoUrl)
  /\ fx' = NoFx
  /\ UNCHANGED <<ops, isAnalyzing, stamp, base>>
  /\ UNCHANGED mediaVars
  /\ UNCHANGED appVars

\* handleAnalyze up to the await (the button is disabled while isAnalyzing
\* and while the script is blank; the click modelled is one with a script
\* in the text area)
HandleAnalyzeStart ==
  /\ ~isAnalyzing
  /\ stamp + 1 \in Stamps
  /\ isAnalyzing' = TRUE
  /\ Observe("analyzeStart", 0, NoUrl)
  /\ fx' = NoFx
  /\ UNCHANGED <<state, past, future, ops, stamp, base>>
  /\ UNCHANGED mediaVars
  /\ analysis' = "pending"
  /\ UNCHANGED <<characters, script, isImporting, upload, call>>
  /\ UNCHANGED sideVars

\* handleAnalyze after the await: analyzeScript returned n panels (none when
\* the response was empty or malformed); setPanels(result.panels) and
\* resetHistory() are dispatched in the same event.
HandleAnalyzeDone(n, eager) ==
  /\ isAnalyzing
  /\ analysis = "pending"
  /\ LET panels == AnalysisPanels(stamp + 1, n)
     IN Commit(resetHistory(setState(Rendered, ByValue(panels), eager), eager))
  /\ isAnalyzing' = FALSE
  /\ stamp' = stamp + 1
  /\ base' = AnalysisPanels(stamp + 1, n)
  /\ Observe("analyze", n, NoUrl)
  /\ fx' = NoFx
  /\ UNCHANGED ops
  /\ UNCHANGED mediaVars
  /\ characters' = AnalysisCharacters(n)
  /\ analysis' = "idle"
  /\ UNCHANGED <<script, isImporting, upload, call>>
  /\ UNCHANGED sideVars

Init ==
  /\ state = <<>>
  /\ past = <<>>
  /\ future = <<>>
  /\ ops = [id \in AllIds |-> 0]
  /\ isAnalyzing = FALSE
  /\ stamp = 0
  /\ lastOp = Op("init", 0, NoUrl, TRUE, FALSE)
  /\ pre = None
  /\ und = None
  /\ base = <<>>
  /\ vops = [id \in AllIds |-> 0]
  /\ audio = [id \in AllIds |-> "idle"]
  /\ isGeneratingAnimatic = FALSE
  /\ animaticUrl = NoUrl
  /\ animaticReq = None
  /\ fx = NoFx
  /\ characters = <<>>
  /\ script = NoText
  /\ isImporting = FALSE
  /\ upload = {}
  /\ analysis = "idle"
  /\ call = NoCall
  /\ poll = [id \in AllIds |-> "idle"]
  /\ isMuted = FALSE
  /\ isConnected = FALSE
  /\ live = NoSession

Next ==
  \/ \E pid \in PanelIds(state), kind \in ImageKinds, eager \in BOOLEAN :
       HandleImageStart(pid, kind, eager)
  \/ \E pid \in InFlight, url \in {NoUrl} \cup Urls, eager \in BOOLEAN :
       HandleImageSettle(pid, url, eager)
  \/ \E pid \in PanelIds(state), t \in Transitions, eager \in BOOLEAN :
       handleTransitionChange(pid, t, eager)
  \/ \E eager \in BOOLEAN : Undo(eager)
  \/ \E eager \in BOOLEAN : Redo(eager)
  \/ HandleAnalyzeStart
  \/ \E n \in PanelCounts, eager \in BOOLEAN : HandleAnalyzeDone(n, eager)

Spec == Init /\ [][Next]_vars

\* ------------------------------------------------- history: setPanels
FnSteps == {"start", "settle", "transition"}

\* the closure a handler step handed to setPanels, read off the observer
FnOf(op) ==
  CASE op.name = "start"      -> {Fn("flagImage", op.id, NoUrl, NoTransition)}
    [] op.name = "settle"     -> {Fn("settleImage", op.id, op.url, NoTransition)}
    [] op.name = "transition" -> {Fn("transition", op.id, NoUrl, t) : t \in Transitions}
    [] OTHER -> {}

\* C1: every setPanels call appends exactly the pre-mutation current
\* collection to the end of past, empties future and makes next the current
\* collection, the function form being applied to the latest current.  For
\* the value form (handleAnalyze, where resetHistory is called in the same
\* event) next is the analysed panels, future is empty, and nothing but the
\* pre-mutation current can be in past.  A setPanels after an undo therefore
\* leaves canRedo = false.
SetPanelsPushesCurrent ==
  [][ /\ lastOp'.name \in FnSteps =>
           /\ past' = Append(past, state)
           /\ future' = <<>>
           /\ \E fn \in FnOf(lastOp') : state' = ApplyFn(fn, state)
           /\ ~canRedo'
      /\ lastOp'.name = "analyze" =>
           /\ state' = AnalysisPanels(stamp', lastOp'.id)
           /\ future' = <<>>
           /\ past' \in {<<>>, <<state>>}
    ]_vars

\* a setPanels call made right after an undo that had something to undo
SetPanelsAfterUndo ==
  /\ lastOp.name \in FnSteps
  /\ und.some
  /\ Len(past) = 2
  /\ ~canRedo

\* ------------------------------------------------- history: undo and redo
\* C2: undo with an empty past changes none of current, past, future; undo
\* with a non-empty past removes the last entry of past, puts the old current
\* at the front of future and makes the removed entry the current
\* collection; canUndo is true exactly when past is non-empty.
UndoPopsPast ==
  [][ lastOp'.name = "undo" =>
        /\ canUndo <=> past # <<>>
        /\ IF past = <<>>
           THEN state' = state /\ past' = past /\ future' = future
           ELSE /\ past' = Front(past)
                /\ future' = <<state>> \o future
                /\ state' = Last(past)
    ]_vars

\* a second undo in a row: the old current went in front of an entry of future
UndoOntoFuture ==
  /\ lastOp.name = "undo"
  /\ lastOp.eff
  /\ Len(future) = 2
  /\ future[1] = und.v

\* C3: redo with an empty future changes none of current, past, future; redo
\* with a non-empty future removes the first entry of future, appends the old
\* current to the end of past and makes the removed entry the current
\* collection; canRedo is true exactly when future is non-empty.
RedoShiftsFuture ==
  [][ lastOp'.name = "redo" =>
        /\ canRedo <=> future # <<>>
        /\ IF future = <<>>
           THEN state' = state /\ past' = past /\ future' = future
           ELSE /\ future' = Tail(future)
                /\ past' = Append(past, state)
                /\ state' = Head(future)
    ]_vars

\* a second redo in a row: the old current went behind an entry of past
RedoOntoPast ==
  /\ lastOp.name = "redo"
  /\ lastOp.eff
  /\ Len(past) = 2

\* C8: when past is non-empty, undo directly followed by redo restores the
\* current collection that existed before the undo.
RedoRestoresUndone ==
  (lastOp.name = "redo" /\ und.some) => state = und.v

\* a redo right after an undo, with another undone snapshot still in future
RedoAfterUndo ==
  /\ lastOp.name = "redo"
  /\ und.some
  /\ Len(future) = 1
  /\ und.v # <<>>

HistoryAfterReset(eager) == Render(resetHistory(Rendered, eager))

\* C4: resetHistory, called in any reachable state, yields canUndo =
\* canRedo = false (past and future both empty) and leaves the current
\* collection exactly as it was.
ResetClearsStacksOnly ==
  \A eager \in BOOLEAN :
    /\ HistoryAfterReset(eager).p = <<>>
    /\ HistoryAfterReset(eager).f = <<>>
    /\ HistoryAfterReset(eager).s = state

\* a state with something to undo and something to redo, which a reset clears
ResetWithBothStacks ==
  /\ canUndo
  /\ canRedo
  /\ state # <<>>
  /\ Len(HistoryAfterReset(FALSE).p) + Len(HistoryAfterReset(FALSE).f) = 0

\* C5: after a fresh analysis completes (setPanels(result.panels) followed by
\* resetHistory() in handleAnalyze) past and future are both empty, whatever
\* the order in which the queued updates are applied, so canUndo is false.
AnalysisEmptiesHistory ==
  lastOp.name = "analyze" => (past = <<>> /\ future = <<>> /\ ~canUndo)

\* C7: once undo has been repeated until canUndo is false, the current
\* collection is the one the last reset left current (the panels of the last
\* analysis), or the initial empty collection if there was no reset.
UndoAllReturnsToReset ==
  ~canUndo => state = base

\* C9: the current collection is not equal to any snapshot held in past or
\* in future, also after a setPanels call whose updater changes nothing.
CurrentNotInStacks ==
  lastOp.name \in FnSteps =>
    /\ \A i \in 1..Len(past) : past[i] # state
    /\ \A i \in 1..Len(future) : future[i] # state

\* ------------------------------------------------- image pipeline: failure
\* C10: when an image operation on a panel fails (the external call returns
\* null), the panel's imageUrl after settlement equals its imageUrl from
\* before, isGeneratingImage becomes false, and the operation is over (no
\* further external call is pending for it).
FailedImageKeepsPrevious ==
  [][ (/\ lastOp'.name = "settle"
       /\ lastOp'.url = NoUrl
       /\ lastOp'.id \in PanelIds(state)) =>
        /\ PanelOf(state', lastOp'.id).imageUrl = PanelOf(state, lastOp'.id).imageUrl
        /\ ~PanelOf(state', lastOp'.id).isGeneratingImage
        /\ ops'[lastOp'.id] = ops[lastOp'.id] - 1
    ]_vars

\* ------------------------------------------------- image pipeline: one entry
\* C11: each entry into the image pipeline for a panel sets the panel's
\* isGeneratingImage to true and issues exactly one external call (the flag
\* is set in the step that issues the call, before the await); the
\* settlement sets isGeneratingImage to false and issues no call; on success
\* the returned media reference replaces the panel's imageUrl.
ImageEntryFlagsCallsSettles ==
  [][ /\ lastOp'.name = "start" =>
           /\ PanelOf(state', lastOp'.id).isGeneratingImage
           /\ PanelOf(state', lastOp'.id).imageUrl = PanelOf(state, lastOp'.id).imageUrl
           /\ ops' = [ops EXCEPT ![lastOp'.id] = @ + 1]
      /\ (lastOp'.name = "settle" /\ lastOp'.id \in PanelIds(state)) =>
           /\ ~PanelOf(state', lastOp'.id).isGeneratingImage
           /\ ops' = [ops EXCEPT ![lastOp'.id] = @ - 1]
           /\ lastOp'.url # NoUrl => PanelOf(state', lastOp'.id).imageUrl = lastOp'.url
    ]_vars

\* a successful settlement of a generation started on a panel without image
ImageSettled ==
  /\ lastOp.name = "settle"
  /\ lastOp.url # NoUrl
  /\ lastOp.id \in PanelIds(state)
  /\ PanelOf(state, lastOp.id).imageUrl = lastOp.url
  /\ past # <<>>
  /\ lastOp.id \in PanelIds(Last(past))
  /\ PanelOf(Last(past), lastOp.id).isGeneratingImage
  /\ PanelOf(Last(past), lastOp.id).imageUrl = NoUrl

\* ------------------------------------------------- video pipeline
VInFlight == {id \in AllIds : vops[id] > 0}

\* what the video capability can do with one request
VideoOutcomes == {"uri", "noUri", "failed", "notFound", "noClient"}

Value(url) == [thrown |-> FALSE, notFound |-> FALSE, url |-> url]
Thrown(notFound) == [thrown |-> TRUE, notFound |-> notFound, url |-> NoUrl]

\* a service that turns every error into null
VideoServiceSwallowsAll(outcome, url) ==
  IF outcome = "uri" THEN Value(url) ELSE Value(NoUrl)

\* generateVideoFromImage: the operation's uri, null when the response has
\* none; an error of the external call is rethrown when its message has
\* "Requested entity was not found" and is otherwise turned into null.
\* getAI() runs before the try, so its error leaves the function as it is.
generateVideoFromImage(outcome, url) ==
  CASE outcome = "uri"      -> Value(url)
    [] outcome = "noUri"    -> Value(NoUrl)
    [] outcome = "failed"   -> Value(NoUrl)
    [] outcome = "notFound" -> Thrown(TRUE)
    [] outcome = "noClient" -> Thrown(FALSE)

\* an animate handler without the imageUrl guard
HandleAnimateUnguarded(pid, eager) ==
  /\ pid \in PanelIds(state)
  /\ VInFlight = {}
  /\ setPanels(Fn("flagVideo", pid, NoUrl, NoTransition), eager)
  /\ vops' = [vops EXCEPT ![pid] = @ + 1]
  /\ Observe("animate", pid, NoUrl)
  /\ fx' = NoFx
  /\ UNCHANGED <<ops, isAnalyzing, stamp, base>>
  /\ UNCHANGED <<audio, isGeneratingAnimatic, animaticUrl, animaticReq>>
  /\ poll' = [poll EXCEPT ![pid] = "submitted"]
  /\ UNCHANGED registryVars
  /\ UNCHANGED liveVars

\* handleAnimatePanel up to the await.  panel is the panel object of the
\* rendered collection; without imageUrl the handler returns at once.
HandleAnimatePanel(pid, eager) ==
  /\ pid \in PanelIds(state)
  /\ VInFlight = {}
  /\ IF PanelOf(state, pid).imageUrl = NoUrl
     THEN /\ UNCHANGED <<state, past, future, vops>>
          /\ Observe("animateRefused", pid, NoUrl)
     ELSE /\ setPanels(Fn("flagVideo", pid, NoUrl, NoTransition), eager)
          /\ vops' = [vops EXCEPT ![pid] = @ + 1]
          /\ Observe("animate", pid, NoUrl)
  /\ fx' = NoFx
  /\ UNCHANGED <<ops, isAnalyzing, stamp, base>>
  /\ UNCHANGED <<audio, isGeneratingAnimatic, animaticUrl, animaticReq>>
  /\ poll' = IF PanelOf(state, pid).imageUrl = NoUrl
             THEN poll ELSE [poll EXCEPT ![pid] = "submitted"]
  /\ UNCHANGED registryVars
  /\ UNCHANGED liveVars

\* handleAnimatePanel after the await: the try branch for a returned value,
\* the catch branch for a thrown error
HandleAnimateSettle(pid, outcome, url, eager) ==
  /\ vops[pid] > 0
  /\ LET r == generateVideoFromImage(outcome, url)
     IN IF r.thrown
        THEN /\ fx' = IF r.notFound THEN Fx(outcome, 0, 1) ELSE Fx(outcome, 1, 0)
             /\ setPanels(Fn("clearVideo", pid, NoUrl, NoTransition), eager)
             /\ Observe("animateCatch", pid, NoUrl)
        ELSE /\ fx' = Fx(outcome, 0, 0)
             /\ setPanels(Fn("settleVideo", pid, r.url, NoTransition), eager)
             /\ Observe("animateSettle", pid, r.url)
  /\ vops' = [vops EXCEPT ![pid] = @ - 1]
  /\ UNCHANGED <<ops, isAnalyzing, stamp, base>>
  /\ UNCHANGED <<audio, isGeneratingAnimatic, animaticUrl, animaticReq>>
  /\ poll' = [poll EXCEPT ![pid] = "idle"]
  /\ UNCHANGED registryVars
  /\ UNCHANGED liveVars

\* One analysed panel, its image and video pipelines, undo and redo.
NextVideo ==
  \/ stamp = 0 /\ HandleAnalyzeStart
  \/ \E eager \in BOOLEAN : HandleAnalyzeDone(1, eager)
  \/ \E pid \in PanelIds(state), kind \in ImageKinds, eager \in BOOLEAN :
       HandleImageStart(pid, kind, eager)
  \/ \E pid \in InFlight, url \in {NoUrl} \cup Urls, eager \in BOOLEAN :
       HandleImageSettle(pid, url, eager)
  \/ \E pid \in PanelIds(state), eager \in BOOLEAN :
       Len(past) < MaxHist /\ HandleAnimatePanel(pid, eager)
  \/ \E pid \in VInFlight, outcome \in VideoOutcomes, url \in Urls, eager \in BOOLEAN :
       HandleAnimateSettle(pid, outcome, url, eager)
  \/ \E eager \in BOOLEAN : Undo(eager)
  \/ \E eager \in BOOLEAN : Redo(eager)

SpecVideo == Init /\ [][NextVideo]_vars

\* ------------------------------------------------- batch generation
\* the ids of the panels of coll without imageUrl, in panel order
RECURSIVE Lacking(_)
Lacking(coll) ==
  IF coll = <<>> THEN <<>>
  ELSE (IF Head(coll).imageUrl = NoUrl THEN <<Head(coll).id>> ELSE <<>>) \o Lacking(Tail(coll))

\* the setPanels calls of the handleGenerateImage invocations of one batch,
\* all dispatched in the event of the click
RECURSIVE FlagAll(_, _, _)
FlagAll(c, ids, eager) ==
  IF ids = <<>> THEN c
  ELSE FlagAll(setState(c, ByFn(Fn("flagImage", Head(ids), NoUrl, NoTransition)), eager),
               Tail(ids), eager)

Occurs(ids, id) == Cardinality({i \in 1..Len(ids) : ids[i] = id})

\* a batch that also regenerates the panels that have an image
HandleGenerateAllPanels(eager) ==
  /\ InFlight = {}
  /\ Len(past) < MaxHist
  /\ LET ids == [i \in 1..Len(state) |-> state[i].id]
     IN /\ Commit(FlagAll(Rendered, ids, eager))
        /\ ops' = [id \in AllIds |-> ops[id] + Occurs(ids, id)]
  /\ Observe("generateAll", 0, NoUrl)
  /\ fx' = NoFx
  /\ UNCHANGED <<isAnalyzing, stamp, base>>
  /\ UNCHANGED mediaVars
  /\ UNCHANGED appVars

\* handleGenerateAll up to the awaits: panels.map(async panel => { if
\* (!panel.imageUrl) return handleGenerateImage(panel) }); every invocation
\* runs to its await, so every flag is set and every call issued in this step.
HandleGenerateAll(eager) ==
  /\ InFlight = {}
  /\ Len(past) < MaxHist
  /\ LET ids == Lacking(state)
     IN /\ Commit(FlagAll(Rendered, ids, eager))
        /\ ops' = [id \in AllIds |-> ops[id] + Occurs(ids, id)]
  /\ Observe("generateAll", 0, NoUrl)
  /\ fx' = NoFx
  /\ UNCHANGED <<isAnalyzing, stamp, base>>
  /\ UNCHANGED mediaVars
  /\ UNCHANGED appVars

\* the reference the capability returns for a request made for panel pid
OwnUrl(pid) == pid % 10

\* Two analysed panels, single and batch image generation, video
\* generation; no undo or redo.
NextRun ==
  \/ stamp = 0 /\ HandleAnalyzeStart
  \/ \E eager \in BOOLEAN : HandleAnalyzeDone(2, eager)
  \/ \E pid \in PanelIds(state), kind \in ImageKinds, eager \in BOOLEAN :
       HandleImageStart(pid, kind, eager)
  \/ \E eager \in BOOLEAN : HandleGenerateAll(eager)
  \/ \E pid \in InFlight, ok \in BOOLEAN, eager \in BOOLEAN :
       HandleImageSettle(pid, IF ok THEN OwnUrl(pid) ELSE NoUrl, eager)
  \/ \E pid \in PanelIds(state), eager \in BOOLEAN :
       Len(past) < MaxRunHist /\ HandleAnimatePanel(pid, eager)
  \/ \E pid \in VInFlight, outcome \in VideoOutcomes, eager \in BOOLEAN :
       HandleAnimateSettle(pid, outcome, OwnUrl(pid), eager)

SpecRun == Init /\ [][NextRun]_vars

\* ------------------------------------------------- video pipeline: claims
\* C12: every panel of the current collection that has no imageUrl has no
\* videoUrl either, after any interleaving of image and video starts and
\* settlements, undo and redo.
VideoImpliesImage ==
  \A i \in 1..Len(state) : state[i].imageUrl = NoUrl => state[i].videoUrl = NoUrl

\* C13: invoking handleAnimatePanel for a panel whose imageUrl is absent
\* issues no generation call, sets no isGeneratingVideo and records no
\* history entry.
AnimateWithoutImageIsNoOp ==
  [][ (/\ lastOp'.name \in {"animate", "animateRefused"}
       /\ PanelOf(state, lastOp'.id).imageUrl = NoUrl) =>
        /\ vops' = vops
        /\ state' = state
        /\ past' = past
        /\ future' = future
    ]_vars

\* a refused invocation in a state that has history and a call of the image
\* pipeline pending
AnimateRefused ==
  /\ lastOp.name = "animateRefused"
  /\ PanelOf(state, lastOp.id).imageUrl = NoUrl
  /\ past # <<>>
  /\ InFlight # {}

\* C14: when the animate call fails with the "Requested entity was not
\* found" signature the service rethrows, the handler calls onApiKeyError
\* exactly once and raises no alert, and the panel's isGeneratingVideo is
\* reset with videoUrl unchanged; every other failure of the external call
\* becomes a null result and no step that handles another outcome calls
\* onApiKeyError.
NotFoundReachesKeyCallback ==
  [][ lastOp'.name \in {"animateSettle", "animateCatch"} =>
        /\ fx'.cause = "notFound" =>
             /\ lastOp'.name = "animateCatch"
             /\ fx'.keyErrors = 1
             /\ fx'.alerts = 0
             /\ lastOp'.id \in PanelIds(state) =>
                  /\ ~PanelOf(state', lastOp'.id).isGeneratingVideo
                  /\ PanelOf(state', lastOp'.id).videoUrl = PanelOf(state, lastOp'.id).videoUrl
        /\ fx'.cause \in {"failed", "noUri"} =>
             /\ lastOp'.name = "animateSettle"
             /\ lastOp'.url = NoUrl
        /\ fx'.cause # "notFound" => fx'.keyErrors = 0
        /\ vops' = [vops EXCEPT ![lastOp'.id] = @ - 1]
    ]_vars

\* the credential failure of a second animation of a panel that has a clip
KeyErrorWithClip ==
  /\ lastOp.name = "animateCatch"
  /\ fx.keyErrors = 1
  /\ lastOp.id \in PanelIds(state)
  /\ PanelOf(state, lastOp.id).videoUrl # NoUrl
  /\ ~PanelOf(state, lastOp.id).isGeneratingVideo

\* C15: when a video generation for a panel that already has a videoUrl
\* fails generically (null result), the panel's videoUrl and imageUrl after
\* settlement are those from before and only isGeneratingVideo changes.
FailedVideoKeepsClip ==
  [][ (/\ lastOp'.name = "animateSettle"
       /\ lastOp'.url = NoUrl
       /\ lastOp'.id \in PanelIds(state)) =>
        PanelOf(state', lastOp'.id) =
          [PanelOf(state, lastOp'.id) EXCEPT !.isGeneratingVideo = FALSE]
    ]_vars

Min(a, b) == IF a < b THEN a ELSE b

HasImage(p) == p.imageUrl # NoUrl

\* the first three panels, whether they have an image or not
FirstThree(panels) == SubSeq(panels, 1, Min(3, Len(panels)))

\* a selection that takes the first three panels without looking for images
firstThreeUnfiltered(panels) == FirstThree(panels)

\* generateAnimatic: panels.filter(p => p.imageUrl).slice(0, 3)
validPanels(panels) ==
  LET ready == SelectSeq(panels, HasImage)
  IN SubSeq(ready, 1, Min(3, Len(ready)))

\* a directive after every included panel that has a transition
DirectiveAlways(p, i, n) ==
  IF p.transition # NoTransition /\ p.transition # "None" THEN p.transition ELSE NoTransition

\* if (p.transition && p.transition !== 'None' && i < validPanels.length - 1)
\* (i counts from 1 here): the directive put after scene i, if any
Directive(p, i, n) ==
  IF p.transition # NoTransition /\ p.transition # "None" /\ i < n
  THEN p.transition ELSE NoTransition

\* generateAnimatic up to the external call: no request when fewer than two
\* panels qualify, else one request with a reference image per included
\* panel and the directives of the composed description
AnimaticRequest(panels) ==
  LET valid == validPanels(panels)
  IN IF Len(valid) < 2 THEN None
     ELSE Some([i \in 1..Len(valid) |->
                  [id |-> valid[i].id, image |-> valid[i].imageUrl,
                   directive |-> Directive(valid[i], i, Len(valid))]])

\* an animatic service that turns every error into null
AnimaticServiceSwallowsAll(outcome, url) ==
  IF outcome = "uri" THEN Value(url) ELSE Value(NoUrl)

\* generateAnimatic from the external call on: the operation's uri or null,
\* errors as in generateVideoFromImage
generateAnimatic(outcome, url) ==
  CASE outcome = "uri"      -> Value(url)
    [] outcome = "noUri"    -> Value(NoUrl)
    [] outcome = "failed"   -> Value(NoUrl)
    [] outcome = "notFound" -> Thrown(TRUE)
    [] outcome = "noClient" -> Thrown(FALSE)

\* handleGenerateAnimatic up to the await (the button is disabled while
\* isGeneratingAnimatic).  With fewer than two image-bearing panels the
\* handler alerts and returns.  A null from the service's own precondition
\* would take the else branch of if (url) and the finally in the same step.
HandleGenerateAnimatic ==
  /\ ~isGeneratingAnimatic
  /\ IF Len(SelectSeq(state, HasImage)) < 2
     THEN /\ fx' = Fx("none", 1, 0)
          /\ UNCHANGED <<isGeneratingAnimatic, animaticUrl, animaticReq>>
          /\ Observe("animaticRefused", 0, NoUrl)
     ELSE /\ animaticUrl' = NoUrl
          /\ animaticReq' = AnimaticRequest(state)
          /\ isGeneratingAnimatic' = animaticReq'.some
          /\ fx' = IF animaticReq'.some THEN NoFx ELSE Fx("none", 1, 0)
          /\ Observe("animatic", 0, NoUrl)
  /\ UNCHANGED <<state, past, future, ops, isAnalyzing, stamp, base, vops, audio>>
  /\ UNCHANGED appVars

\* handleGenerateAnimatic after the await
HandleAnimaticSettle(outcome, url) ==
  /\ animaticReq.some
  /\ LET r == generateAnimatic(outcome, url)
     IN /\ animaticUrl' = IF ~r.thrown /\ r.url # NoUrl THEN r.url ELSE animaticUrl
        /\ fx' = CASE ~r.thrown /\ r.url # NoUrl -> Fx(outcome, 0, 0)
                   [] ~r.thrown /\ r.url = NoUrl -> Fx(outcome, 1, 0)
                   [] r.thrown /\ r.notFound     -> Fx(outcome, 0, 1)
                   [] OTHER                      -> Fx(outcome, 1, 0)
        /\ Observe("animaticSettle", 0, r.url)
  /\ isGeneratingAnimatic' = FALSE
  /\ animaticReq' = None
  /\ UNCHANGED <<state, past, future, ops, isAnalyzing, stamp, base, vops, audio>>
  /\ UNCHANGED appVars

\* the collections the assembly is applied to: up to four panels, each with
\* or without image, with no transition, 'None' or a real one
AnimaticTransitions == {NoTransition, "None"} \cup Transitions

AnimaticPanel(i, withImage, t) ==
  [NewPanel(1, i) EXCEPT !.imageUrl = IF withImage THEN OwnUrl(i) ELSE NoUrl,
                         !.transition = t]

AnimaticInputs ==
  UNION { { [i \in 1..n |-> AnimaticPanel(i, img[i], tr[i])] :
              img \in [1..n -> BOOLEAN], tr \in [1..n -> AnimaticTransitions] }
          : n \in {0} \cup PanelNumbers }

InitAnimatic ==
  /\ state \in AnimaticInputs
  /\ past = <<>>
  /\ future = <<>>
  /\ ops = [id \in AllIds |-> 0]
  /\ isAnalyzing = FALSE
  /\ stamp = 1
  /\ lastOp = Op("init", 0, NoUrl, TRUE, FALSE)
  /\ pre = None
  /\ und = None
  /\ base = state
  /\ vops = [id \in AllIds |-> 0]
  /\ audio = [id \in AllIds |-> "idle"]
  /\ isGeneratingAnimatic = FALSE
  /\ animaticUrl = NoUrl
  /\ animaticReq = None
  /\ fx = NoFx
  /\ characters = <<>>
  /\ script = NoText
  /\ isImporting = FALSE
  /\ upload = {}
  /\ analysis = "idle"
  /\ call = NoCall
  /\ poll = [id \in AllIds |-> "idle"]
  /\ isMuted = FALSE
  /\ isConnected = FALSE
  /\ live = NoSession

NextAnimatic ==
  \/ HandleGenerateAnimatic
  \/ \E outcome \in VideoOutcomes, url \in Urls : HandleAnimaticSettle(outcome, url)

SpecAnimatic == InitAnimatic /\ [][NextAnimatic]_vars

\* ------------------------------------------------- animatic assembly: claims
ImageCount(coll) == Cardinality({i \in 1..Len(coll) : coll[i].imageUrl # NoUrl})

\* C17 as stated: assembly refuses whenever fewer than 2 of the first 3
\* panels in panel order have an imageUrl, whatever images later panels have.
RefusesOnFirstThree ==
  ImageCount(FirstThree(state)) < 2 => ~animaticReq.some

\* C17 amended: assembly refuses (the handler alerts and returns before
\* calling the service, and the service by itself returns null without an
\* external call) whenever fewer than 2 panels of the whole collection have
\* an imageUrl; images of panels after the third count.
RefusesBelowTwoImages ==
  [][ ImageCount(state) < 2 =>
        /\ AnimaticRequest(state) = None
        /\ lastOp'.name \in {"animatic", "animaticRefused"} =>
             /\ lastOp'.name = "animaticRefused"
             /\ animaticReq' = None
             /\ ~isGeneratingAnimatic'
             /\ animaticUrl' = animaticUrl
    ]_vars

\* a refused click on four panels of which only the last has an image
AnimaticRefusedOneImage ==
  /\ lastOp.name = "animaticRefused"
  /\ Len(state) = 4
  /\ ImageCount(state) = 1
  /\ state[4].imageUrl # NoUrl
  /\ fx.alerts = 1

\* C18: when assembly proceeds, the request carries as reference images
\* exactly the first min(3, k) image-bearing panels in panel order (k the
\* number of image-bearing panels), in that order, and has a transition
\* directive for an included panel exactly when that panel's transition is
\* set, is not None, and the panel is not the last included one.
RequestCarriesFirstThreeImages ==
  animaticReq.some =>
    LET r == animaticReq.v
        n == Min(3, ImageCount(state))
    IN /\ Len(r) = n
       /\ \E f \in [1..n -> 1..Len(state)] :
            /\ \A i \in 1..n, j \in 1..n : i < j => f[i] < f[j]
            /\ \A j \in 1..Len(state) :
                 (j <= f[n] /\ state[j].imageUrl # NoUrl) => \E i \in 1..n : f[i] = j
            /\ \A i \in 1..n :
                 /\ state[f[i]].imageUrl # NoUrl
                 /\ r[i].id = state[f[i]].id
                 /\ r[i].image = state[f[i]].imageUrl
                 /\ (r[i].directive # NoTransition) <=>
                      (/\ state[f[i]].transition \notin {NoTransition, "None"}
                       /\ i < n)
                 /\ r[i].directive \in {NoTransition, state[f[i]].transition}

\* a request from four panels, the first without image: panels 2, 3, 4 are
\* included, the last has a transition and gets no directive
RequestSkipsFirstPanel ==
  /\ animaticReq.some
  /\ Len(state) = 4
  /\ state[1].imageUrl = NoUrl
  /\ Len(animaticReq.v) = 3
  /\ animaticReq.v[1].directive = "Cut"
  /\ state[4].transition = "Cut"
  /\ animaticReq.v[3].directive = NoTransition

\* C19: every assembly attempt that passes the precondition ends with
\* isGeneratingAnimatic = false and animaticUrl either the returned video
\* reference or null; a failure with the "Requested entity was not found"
\* signature calls onApiKeyError and raises no alert.
AnimaticEndsCleanly ==
  [][ /\ lastOp'.name = "animatic" =>
           /\ animaticUrl' = NoUrl
           /\ isGeneratingAnimatic' /\ animaticReq'.some
      /\ lastOp'.name = "animaticSettle" =>
           /\ ~isGeneratingAnimatic'
           /\ ~animaticReq'.some
           /\ animaticUrl' = IF fx'.cause = "uri" THEN lastOp'.url ELSE NoUrl
           /\ fx'.cause = "uri" => (lastOp'.url # NoUrl /\ fx'.alerts = 0 /\ fx'.keyErrors = 0)
           /\ fx'.cause = "notFound" => (fx'.keyErrors = 1 /\ fx'.alerts = 0)
           /\ fx'.cause \notin {"uri", "notFound"} => (fx'.keyErrors = 0 /\ fx'.alerts = 1)
    ]_vars

\* an attempt that ended with the credential failure
AnimaticKeyError ==
  /\ lastOp.name = "animaticSettle"
  /\ fx.cause = "notFound"
  /\ fx.keyErrors = 1
  /\ ~isGeneratingAnimatic
  /\ animaticUrl = NoUrl
  /\ ImageCount(state) >= 2

\* ------------------------------------------------- narration
\* what generateSpeech and the decoding after it can give: audio that
\* starts playing, no audio (null, also for every error of the call), or
\* audio whose decoding or playback start throws
SpeechOutcomes == {"audio", "none", "throws"}

\* a handler that clears the flag as soon as the speech call has returned
SpeechFnClearsAlways(outcome) == "clearAudio"

\* the setPanels call handlePlayAudio makes when the speech call has
\* returned: none when playback starts (the flag is left for onended), the
\* clearing of the flag in the else branch and in the catch
SpeechFn(outcome) == IF outcome = "audio" THEN "none" ELSE "clearAudio"

\* handlePlayAudio up to the await.  Without text the handler returns at
\* once.  The runs explored have one narration per panel at a time.
HandlePlayAudio(pid, hasText, eager) ==
  /\ pid \in PanelIds(state)
  /\ audio[pid] = "idle"
  /\ IF hasText
     THEN /\ setPanels(Fn("flagAudio", pid, NoUrl, NoTransition), eager)
          /\ audio' = [audio EXCEPT ![pid] = "speech"]
          /\ Observe("play", pid, NoUrl)
     ELSE /\ UNCHANGED <<state, past, future, audio>>
          /\ Observe("playRefused", pid, NoUrl)
  /\ fx' = NoFx
  /\ UNCHANGED <<ops, isAnalyzing, stamp, base>>
  /\ UNCHANGED <<vops, isGeneratingAnimatic, animaticUrl, animaticReq>>
  /\ UNCHANGED appVars

\* handlePlayAudio after the await
HandleSpeechResult(pid, outcome, eager) ==
  /\ audio[pid] = "speech"
  /\ IF SpeechFn(outcome) = "none"
     THEN UNCHANGED <<state, past, future>>
     ELSE setPanels(Fn(SpeechFn(outcome), pid, NoUrl, NoTransition), eager)
  /\ audio' = [audio EXCEPT ![pid] = IF outcome = "audio" THEN "playing" ELSE "idle"]
  /\ Observe(CASE outcome = "audio" -> "audioData"
               [] outcome = "none"  -> "audioNone"
               [] OTHER             -> "audioThrow", pid, NoUrl)
  /\ fx' = NoFx
  /\ UNCHANGED <<ops, isAnalyzing, stamp, base>>
  /\ UNCHANGED <<vops, isGeneratingAnimatic, animaticUrl, animaticReq>>
  /\ UNCHANGED appVars

\* source.onended
HandlePlaybackEnded(pid, eager) ==
  /\ audio[pid] = "playing"
  /\ setPanels(Fn("clearAudio", pid, NoUrl, NoTransition), eager)
  /\ audio' = [audio EXCEPT ![pid] = "idle"]
  /\ Observe("audioEnd", pid, NoUrl)
  /\ fx' = NoFx
  /\ UNCHANGED <<ops, isAnalyzing, stamp, base>>
  /\ UNCHANGED <<vops, isGeneratingAnimatic, animaticUrl, animaticReq>>
  /\ UNCHANGED appVars

Narrating == {id \in AllIds : audio[id] # "idle"}

\* One analysed panel, its narration and its image pipeline, undo and redo.
NextAudio ==
  \/ stamp = 0 /\ HandleAnalyzeStart
  \/ \E eager \in BOOLEAN : HandleAnalyzeDone(1, eager)
  \/ \E pid \in PanelIds(state), hasText \in BOOLEAN, eager \in BOOLEAN :
       Len(past) < MaxHist /\ HandlePlayAudio(pid, hasText, eager)
  \/ \E pid \in Narrating, outcome \in SpeechOutcomes, eager \in BOOLEAN :
       HandleSpeechResult(pid, outcome, eager)
  \/ \E pid \in Narrating, eager \in BOOLEAN : HandlePlaybackEnded(pid, eager)
  \/ \E pid \in PanelIds(state), kind \in ImageKinds, eager \in BOOLEAN :
       HandleImageStart(pid, kind, eager)
  \/ \E pid \in InFlight, url \in {NoUrl} \cup Urls, eager \in BOOLEAN :
       HandleImageSettle(pid, url, eager)
  \/ \E eager \in BOOLEAN : Undo(eager)
  \/ \E eager \in BOOLEAN : Redo(eager)

SpecAudio == Init /\ [][NextAudio]_vars

UndoAfterGenerateRevertsPanel ==
  [][ (/\ lastOp.name = "settle"
       /\ lastOp.url # NoUrl
       /\ lastOp'.name = "undo"
       /\ Len(past) >= 2
       /\ lastOp.id \in PanelIds(past[Len(past) - 1])
       /\ PanelOf(past[Len(past) - 1], lastOp.id).imageUrl = NoUrl
       /\ ~PanelOf(past[Len(past) - 1], lastOp.id).isGeneratingImage
       /\ lastOp.id \in PanelIds(Last(past))
       /\ PanelOf(Last(past), lastOp.id).isGeneratingImage
       /\ lastOp.id \in PanelIds(state)
       /\ PanelOf(state, lastOp.id).imageUrl = lastOp.url) =>
        /\ lastOp.id \in PanelIds(state')
        /\ PanelOf(state', lastOp.id).imageUrl = NoUrl
        /\ ~PanelOf(state', lastOp.id).isGeneratingImage
    ]_vars

\* ------------------------------------------------- operations side by side
\* the media references returned in the runs with overlapping operations
OverlapUrls == {1, 2}

\* the outcomes of the video service in those runs: a clip, or null
OverlapVideoOutcomes == {"uri", "failed"}

\* the operations awaiting their external call or the end of their playback
RECURSIVE Pending(_)
Pending(ids) ==
  IF ids = {} THEN 0
  ELSE LET id == CHOOSE x \in ids : TRUE
       IN ops[id] + vops[id] + (IF audio[id] = "idle" THEN 0 ELSE 1)
            + Pending(ids \ {id})

\* Two analysed panels; image operations (also two on one panel), animation
\* and narration, two operations at a time, settling in any order; a second
\* analysis can replace the collection meanwhile.  No undo and no redo.
NextOverlap ==
  \/ stamp = 0 /\ HandleAnalyzeStart
  \/ \E eager \in BOOLEAN : HandleAnalyzeDone(2, eager)
  \/ \E pid \in PanelIds(state), kind \in ImageKinds, eager \in BOOLEAN :
       Pending(AllIds) < 2 /\ Len(past) < MaxRunHist /\ ImageStart(pid, kind, eager)
  \/ \E pid \in InFlight, url \in {NoUrl} \cup OverlapUrls, eager \in BOOLEAN :
       HandleImageSettle(pid, url, eager)
  \/ \E pid \in PanelIds(state), eager \in BOOLEAN :
       Pending(AllIds) < 2 /\ Len(past) < MaxRunHist /\ HandleAnimatePanel(pid, eager)
  \/ \E pid \in VInFlight, outcome \in OverlapVideoOutcomes, url \in OverlapUrls,
        eager \in BOOLEAN :
       HandleAnimateSettle(pid, outcome, url, eager)
  \/ \E pid \in PanelIds(state), eager \in BOOLEAN :
       Pending(AllIds) < 2 /\ Len(past) < MaxRunHist /\ HandlePlayAudio(pid, TRUE, eager)
  \/ \E pid \in Narrating, outcome \in SpeechOutcomes, eager \in BOOLEAN :
       HandleSpeechResult(pid, outcome, eager)
  \/ \E pid \in Narrating, eager \in BOOLEAN : HandlePlaybackEnded(pid, eager)

SpecOverlap == Init /\ [][NextOverlap]_vars

\* Two analysed panels whose operations can outlive their collection: a
\* second analysis replaces the panels while operations are in flight, and
\* their settlements arrive for ids that are no longer there.
NextReplaced ==
  \/ HandleAnalyzeStart
  \/ \E eager \in BOOLEAN : HandleAnalyzeDone(2, eager)
  \/ \E pid \in PanelIds(state), kind \in ImageKinds, eager \in BOOLEAN :
       Pending(AllIds) < 2 /\ Len(past) < MaxHist /\ ImageStart(pid, kind, eager)
  \/ \E pid \in InFlight, url \in {NoUrl} \cup Urls, eager \in BOOLEAN :
       HandleImageSettle(pid, url, eager)
  \/ \E pid \in PanelIds(state), eager \in BOOLEAN :
       Pending(AllIds) < 2 /\ Len(past) < MaxHist /\ HandleAnimatePanel(pid, eager)
  \/ \E pid \in VInFlight, outcome \in OverlapVideoOutcomes, url \in Urls,
        eager \in BOOLEAN :
       HandleAnimateSettle(pid, outcome, url, eager)
  \/ \E pid \in PanelIds(state), eager \in BOOLEAN :
       Pending(AllIds) < 2 /\ Len(past) < MaxHist /\ HandlePlayAudio(pid, TRUE, eager)
  \/ \E pid \in Narrating, outcome \in SpeechOutcomes, eager \in BOOLEAN :
       HandleSpeechResult(pid, outcome, eager)
  \/ \E pid \in Narrating, eager \in BOOLEAN : HandlePlaybackEnded(pid, eager)

SpecReplaced == Init /\ [][NextReplaced]_vars

\* ------------------------------------------------- overlapping operations
\* C22: when two image operations on the same panel overlap, then once both
\* have settled (the settlement that leaves no image operation of the panel
\* in flight) the panel's isGeneratingImage is false and its imageUrl is
\* the outcome of the operation that settled last.
LastSettledWins ==
  [][ (/\ lastOp'.name = "settle"
       /\ ops'[lastOp'.id] = 0
       /\ lastOp'.id \in PanelIds(state)) =>
        /\ lastOp'.id \in PanelIds(state')
        /\ ~PanelOf(state', lastOp'.id).isGeneratingImage
        /\ PanelOf(state', lastOp'.id).imageUrl = lastOp'.url
    ]_vars

\* the second of two overlapping operations has settled: its settlement
\* found the flag already cleared and the image of the first one in place
OverlappedBothSettled ==
  /\ lastOp.name = "settle"
  /\ lastOp.url = 2
  /\ ops[lastOp.id] = 0
  /\ lastOp.id \in PanelIds(state)
  /\ PanelOf(state, lastOp.id).imageUrl = 2
  /\ past # <<>>
  /\ lastOp.id \in PanelIds(Last(past))
  /\ PanelOf(Last(past), lastOp.id).imageUrl = 1
  /\ ~PanelOf(Last(past), lastOp.id).isGeneratingImage

\* the steps in which an operation settles with its result
Settlements == {"settle", "animateSettle", "audioEnd"}

\* the panel of collection coll carries the result of the settlement op
HasResult(coll, op) ==
  /\ op.id \in PanelIds(coll)
  /\ CASE op.name = "settle" ->
            /\ PanelOf(coll, op.id).imageUrl = op.url
            /\ ~PanelOf(coll, op.id).isGeneratingImage
       [] op.name = "animateSettle" ->
            /\ PanelOf(coll, op.id).videoUrl = op.url
            /\ ~PanelOf(coll, op.id).isGeneratingVideo
       [] op.name = "audioEnd" -> ~PanelOf(coll, op.id).isPlayingAudio
       [] OTHER -> FALSE

\* C23: no update is lost between concurrent operations.  When operations
\* in flight on two different panels (image, video or narration) settle
\* successfully one right after the other, in either order, the current
\* collection contains both results.
NoLostUpdate ==
  [][ (/\ lastOp.name \in Settlements
       /\ lastOp'.name \in Settlements
       /\ lastOp.url # NoUrl \/ lastOp.name = "audioEnd"
       /\ lastOp'.url # NoUrl \/ lastOp'.name = "audioEnd"
       /\ lastOp.id # lastOp'.id
       /\ lastOp.id \in PanelIds(state)
       /\ lastOp'.id \in PanelIds(state)) =>
        /\ HasResult(state', lastOp)
        /\ HasResult(state', lastOp')
    ]_vars

\* an image and a clip of two different panels, the clip requested first
\* and settled last
ImageAndClipBothKept ==
  /\ lastOp.name = "animateSettle"
  /\ lastOp.url # NoUrl
  /\ HasResult(state, lastOp)
  /\ past # <<>>
  /\ \E i \in 1..Len(Last(past)) :
       /\ Last(past)[i].id # lastOp.id
       /\ Last(past)[i].imageUrl # NoUrl
       /\ PanelOf(state, Last(past)[i].id).imageUrl = Last(past)[i].imageUrl
       /\ Len(past) >= 2
       /\ PanelOf(past[Len(past) - 1], Last(past)[i].id).isGeneratingImage
       /\ PanelOf(past[Len(past) - 1], lastOp.id).isGeneratingVideo

\* ------------------------------------------------- one panel per operation
\* the steps of the operations bound to one panel id
PanelSteps == {"start", "settle", "animate", "animateRefused", "animateSettle",
               "animateCatch", "play", "audioData", "audioNone", "audioThrow",
               "audioEnd"}

\* C24: every start or settlement step of a per-panel operation bound to
\* panel id P changes only the panel whose id is P: the number of panels,
\* their order and every other panel are unchanged, and when no panel has
\* id P (a new analysis replaced the collection) the collection is unchanged.
OnlyBoundPanelChanges ==
  [][ lastOp'.name \in PanelSteps =>
        /\ Len(state') = Len(state)
        /\ \A i \in 1..Len(state) :
             /\ state'[i].id = state[i].id
             /\ state[i].id # lastOp'.id => state'[i] = state[i]
        /\ lastOp'.id \notin PanelIds(state) => state' = state
    ]_vars

\* an image has settled for the first panel of the former collection while
\* the second analysis is in place; its second panel is being narrated
SettledForReplacedPanel ==
  /\ lastOp.name = "settle"
  /\ lastOp.url # NoUrl
  /\ lastOp.id = 11
  /\ PanelIds(state) = {21, 22}
  /\ PanelOf(state, 22).isPlayingAudio
  /\ past # <<>>
  /\ Last(past) = state

\* ------------------------------------------------- prompt composition
\* String.prototype.includes on token sequences ('' is in every string)
Includes(s, t) == \E i \in 0..(Len(s) - Len(t)) : SubSeq(s, i + 1, i + Len(t)) = t

\* ` (${char.name} is ${char.description})`
Parenthetical(char) ==
  <<" (">> \o char.name \o <<" is ">> \o char.description \o <<")">>

\* a loop body that appends the description of every character
ReinforceAlways(finalPrompt, char) == finalPrompt \o Parenthetical(char)

\* the body of characters.forEach in the imagePrompt branch
Reinforce(finalPrompt, char) ==
  IF Includes(finalPrompt, char.name)
  THEN finalPrompt \o Parenthetical(char)
  ELSE finalPrompt

\* characters.forEach(char => { ... finalPrompt += ... }) from character k on
RECURSIVE ReinforceFrom(_, _, _)
ReinforceFrom(finalPrompt, chars, k) ==
  IF k > Len(chars) THEN finalPrompt
  ELSE ReinforceFrom(Reinforce(finalPrompt, chars[k]), chars, k + 1)

\* the fallback branch: characterContext += `${char.name} is ${char.description}. `
RECURSIVE CharacterContext(_, _, _)
CharacterContext(panel, chars, k) ==
  IF k > Len(chars) THEN <<>>
  ELSE (IF \/ Includes(panel.visualDescription, chars[k].name)
           \/ panel.dialogue.some /\ Includes(panel.dialogue.v, chars[k].name)
        THEN chars[k].name \o <<" is ">> \o chars[k].description \o <<". ">>
        ELSE <<>>)
       \o CharacterContext(panel, chars, k + 1)

\* finalPrompt of generatePanelImage (an empty imagePrompt is falsy)
FinalPrompt(panel, chars) ==
  IF panel.imagePrompt # <<>>
  THEN ReinforceFrom(panel.imagePrompt, chars, 1)
  ELSE <<"Shot Type: ", panel.shotType, ". Scene: ">> \o panel.visualDescription
         \o <<". Characters: ">> \o CharacterContext(panel, chars, 1)

StyleHeader(style) == <<"[Style Specification] Art Style: ", style,
                        "[Technical Scene Description]">>
QualitySuffix == <<"[Technical Specifications] High fidelity, cinematic lighting, detailed texture, 8k resolution.">>

\* structuredPrompt of generatePanelImage
StructuredPrompt(panel, style, chars) ==
  StyleHeader(style) \o FinalPrompt(panel, chars) \o QualitySuffix

\* the inputs explored
PromptTokens == {"A", "B", "x"}
Names == {<<"A">>, <<"B">>}
Descriptions == {<<"x">>, <<"B">>}
EditTexts == {<<"x">>, <<"B">>, <<"y">>}
Styles == {"Realistic Cinematic", "Film Noir"}

PromptPanel(imagePrompt, visualDescription, dialogue) ==
  [imagePrompt |-> imagePrompt, visualDescription |-> visualDescription,
   dialogue |-> dialogue, shotType |-> "Wide"]

\* panels with a cached imagePrompt of one or two tokens, and panels without
PromptPanels ==
  {PromptPanel(p, <<"x">>, None) :
     p \in {<<a>> : a \in PromptTokens} \cup {<<a, b>> : a, b \in PromptTokens}}
  \cup {PromptPanel(<<>>, v, d) :
          v \in {<<"A">>, <<"x">>}, d \in {None, Some(<<"B">>)}}

Registries ==
  {<<>>} \cup {<<Character(n, d)>> : n \in Names, d \in Descriptions}
         \cup {<<Character(n1, d1), Character(n2, d2)>> :
                 n1 \in Names, d1 \in Descriptions, n2 \in Names, d2 \in Descriptions}

\* handleGenerateImage as far as the prompt goes: generatePanelImage is
\* called with the panel, the current style and the current registry
ComposePrompt(panel, style) ==
  /\ call' = Call("generatePanelImage",
                  [panel |-> panel, style |-> style, characters |-> characters],
                  StructuredPrompt(panel, style, characters))
  /\ Observe("compose", 0, NoUrl)
  /\ fx' = NoFx
  /\ UNCHANGED <<state, past, future, ops, isAnalyzing, stamp, base>>
  /\ UNCHANGED mediaVars
  /\ UNCHANGED <<characters, script, isImporting, upload, analysis>>
  /\ UNCHANGED sideVars

\* a save that writes the text into every character
saveCharacterEditAll(idx, text) ==
  /\ idx \in 1..Len(characters)
  /\ characters' = [j \in 1..Len(characters) |->
                      [characters[j] EXCEPT !.description = text]]
  /\ call' = Call("saveCharacterEdit", <<idx, text>>, <<>>)
  /\ Observe("saveCharacterEdit", idx, NoUrl)
  /\ fx' = NoFx
  /\ UNCHANGED <<state, past, future, ops, isAnalyzing, stamp, base>>
  /\ UNCHANGED mediaVars
  /\ UNCHANGED <<script, isImporting, upload, analysis>>
  /\ UNCHANGED sideVars

\* saveCharacterEdit(idx) with tempCharDesc = text; call keeps the index
\* and the text the handler was given
saveCharacterEdit(idx, text) ==
  /\ idx \in 1..Len(characters)
  /\ characters' = [characters EXCEPT ![idx].description = text]
  /\ call' = Call("saveCharacterEdit", <<idx, text>>, <<>>)
  /\ Observe("saveCharacterEdit", idx, NoUrl)
  /\ fx' = NoFx
  /\ UNCHANGED <<state, past, future, ops, isAnalyzing, stamp, base>>
  /\ UNCHANGED mediaVars
  /\ UNCHANGED <<script, isImporting, upload, analysis>>
  /\ UNCHANGED sideVars

\* the registry as some analysis left it
InitPrompt ==
  /\ state = <<>>
  /\ past = <<>>
  /\ future = <<>>
  /\ ops = [id \in AllIds |-> 0]
  /\ isAnalyzing = FALSE
  /\ stamp = 1
  /\ lastOp = Op("init", 0, NoUrl, TRUE, FALSE)
  /\ pre = None
  /\ und = None
  /\ base = <<>>
  /\ vops = [id \in AllIds |-> 0]
  /\ audio = [id \in AllIds |-> "idle"]
  /\ isGeneratingAnimatic = FALSE
  /\ animaticUrl = NoUrl
  /\ animaticReq = None
  /\ fx = NoFx
  /\ characters \in Registries
  /\ script = NoText
  /\ isImporting = FALSE
  /\ upload = {}
  /\ analysis = "idle"
  /\ call = NoCall
  /\ poll = [id \in AllIds |-> "idle"]
  /\ isMuted = FALSE
  /\ isConnected = FALSE
  /\ live = NoSession

NextPrompt ==
  \/ \E panel \in PromptPanels, style \in Styles : ComposePrompt(panel, style)
  \/ \E idx \in 1..Len(characters), text \in EditTexts : saveCharacterEdit(idx, text)

SpecPrompt == InitPrompt /\ [][NextPrompt]_vars

\* the parentheticals of the characters chosen by mask among the first k
RECURSIVE Appended(_, _, _)
Appended(chars, mask, k) ==
  IF k = 0 THEN <<>>
  ELSE Appended(chars, mask, k - 1)
         \o (IF mask[k] THEN Parenthetical(chars[k]) ELSE <<>>)

\* C25: for a panel with a cached imagePrompt the composed scene text is the
\* imagePrompt followed by one parenthetical (name is description), with
\* the registry's current description, for exactly the registry characters
\* whose name is a substring of the working prompt (the imagePrompt with the
\* parentheticals appended before that character's turn); when no name is
\* in the imagePrompt, it is used verbatim between the style header and the
\* quality suffix.
SceneTextReinforcesMatches ==
  (call.fn = "generatePanelImage" /\ call.in.panel.imagePrompt # <<>>) =>
    LET chars == call.in.characters
        prompt == call.in.panel.imagePrompt
        n == Len(chars)
    IN /\ \E mask \in [1..n -> BOOLEAN] :
            /\ \A i \in 1..n :
                 mask[i] <=> Includes(prompt \o Appended(chars, mask, i - 1), chars[i].name)
            /\ call.out = StyleHeader(call.in.style) \o prompt
                            \o Appended(chars, mask, n) \o QualitySuffix
       /\ (\A i \in 1..n : ~Includes(prompt, chars[i].name)) =>
            call.out = StyleHeader(call.in.style) \o prompt \o QualitySuffix

\* a prompt composed after an edit: the panel names the second character
\* only, whose description is the edited one
PromptWithEditedDescription ==
  /\ call.fn = "generatePanelImage"
  /\ lastOp.name = "compose"
  /\ call.in.panel.imagePrompt = <<"x", "B">>
  /\ call.in.characters = <<Character(<<"A">>, <<"x">>), Character(<<"B">>, <<"y">>)>>
  /\ call.out = StyleHeader(call.in.style) \o <<"x", "B">>
                  \o <<" (", "B", " is ", "y", ")">> \o QualitySuffix

\* the panel's own text names the character
Mentions(panel, name) ==
  IF panel.imagePrompt # <<>>
  THEN Includes(panel.imagePrompt, name)
  ELSE \/ Includes(panel.visualDescription, name)
       \/ panel.dialogue.some /\ Includes(panel.dialogue.v, name)

\* C26: prompt composition is a function of (panel, style, characters);
\* editing one character's description changes the composed prompt of every
\* panel that mentions that character's name and leaves the composed prompt
\* of every panel that does not mention it identical.
EditReachesOnlyMentioningPanels ==
  [][ (lastOp'.name = "saveCharacterEdit" /\ characters' # characters) =>
        \A panel \in PromptPanels, style \in Styles :
          IF Mentions(panel, characters[lastOp'.id].name)
          THEN StructuredPrompt(panel, style, characters')
                 # StructuredPrompt(panel, style, characters)
          ELSE StructuredPrompt(panel, style, characters')
                 = StructuredPrompt(panel, style, characters)
    ]_vars

\* ------------------------------------------------- outpaint canvas
\* Lengths are held in quarter pixels, so that 1.5 w, 0.5 w and
\* (1.5 w - w) / 2 are exact for every whole number of pixels w.
Px(n) == 4 * n

\* x * (1 + EXPANSION_FACTOR) and x * 1.5
Expanded(x) == x + x \div 2

\* x * EXPANSION_FACTOR
ExpansionOf(x) == x \div 2

\* a canvas that could hold a fraction of a pixel
CanvasKeepsFraction(x) == x

\* canvas.width = x (canvas.height = x): the attribute is an unsigned long,
\* the assignment drops the fraction
CanvasSide(x) == Px(x \div Px(1))

OutpaintDirections == {"up", "down", "left", "right", "zoom-out"}

\* processImage of outpaintPanelImage for an image of w x h pixels: the
\* canvas size and the offset handed to drawImage
processImage(w, h, direction) ==
  LET width  == Px(w)
      height == Px(h)
      newWidth  == IF direction \in {"left", "right", "zoom-out"}
                   THEN Expanded(width) ELSE width
      newHeight == IF direction \in {"up", "down", "zoom-out"}
                   THEN Expanded(height) ELSE height
      dx == CASE direction = "left"     -> ExpansionOf(width)
              [] direction = "zoom-out" -> (newWidth - width) \div 2
              [] OTHER                  -> 0
      dy == CASE direction = "up"       -> ExpansionOf(height)
              [] direction = "zoom-out" -> (newHeight - height) \div 2
              [] OTHER                  -> 0
  IN [width |-> CanvasSide(newWidth), height |-> CanvasSide(newHeight),
      dx |-> dx, dy |-> dy]

Sides == 1..MaxSide \cup {100}

\* outpaintPanelImage up to the request, for a source image of w x h pixels
ProcessImage(w, h, direction) ==
  /\ call' = Call("processImage", [w |-> w, h |-> h, direction |-> direction],
                  processImage(w, h, direction))
  /\ Observe("processImage", 0, NoUrl)
  /\ fx' = NoFx
  /\ UNCHANGED <<state, past, future, ops, isAnalyzing, stamp, base>>
  /\ UNCHANGED mediaVars
  /\ UNCHANGED <<characters, script, isImporting, upload, analysis>>
  /\ UNCHANGED sideVars

NextOutpaint ==
  \E w \in Sides, h \in Sides, direction \in OutpaintDirections :
    ProcessImage(w, h, direction)

SpecOutpaint == Init /\ [][NextOutpaint]_vars

\* the canvas and offset the claim gives, with 1.5 w standing for 3 w / 2
\* (in quarter pixels: 6 w)
StatedCanvas(w, h, direction) ==
  CASE direction = "left"  -> [width |-> 6 * w, height |-> 4 * h, dx |-> 2 * w, dy |-> 0]
    [] direction = "right" -> [width |-> 6 * w, height |-> 4 * h, dx |-> 0, dy |-> 0]
    [] direction = "up"    -> [width |-> 4 * w, height |-> 6 * h, dx |-> 0, dy |-> 2 * h]
    [] direction = "down"  -> [width |-> 4 * w, height |-> 6 * h, dx |-> 0, dy |-> 0]
    [] direction = "zoom-out" ->
         [width |-> 6 * w, height |-> 6 * h,
          dx |-> (6 * w - 4 * w) \div 2, dy |-> (6 * h - 4 * h) \div 2]

\* C27 as stated: the canvas is 1.5 w x h (w x 1.5 h, 1.5 w x 1.5 h) and the
\* offset of the original is the stated one, for every w and h.
CanvasIsExactlyOneAndAHalf ==
  call.fn = "processImage" =>
    call.out = StatedCanvas(call.in.w, call.in.h, call.in.direction)

\* C27: the canvas is 1.5 w x h (left, right), w x 1.5 h (up, down) or
\* 1.5 w x 1.5 h (zoom-out) with the expanded sides rounded down to whole
\* pixels; the offset of the original is the stated one, computed from the
\* unrounded sides; the side a direction does not touch is unchanged; a
\* 100 x 100 source expanded left gives 150 x 100 with the original at (50, 0).
CanvasIsOneAndAHalfRoundedDown ==
  call.fn = "processImage" =>
    LET w == call.in.w
        h == call.in.h
        stated == StatedCanvas(w, h, call.in.direction)
    IN /\ call.out.width  = 4 * (stated.width \div 4)
       /\ call.out.height = 4 * (stated.height \div 4)
       /\ call.out.dx = stated.dx
       /\ call.out.dy = stated.dy
       /\ call.in.direction \in {"up", "down"} => call.out.width = 4 * w
       /\ call.in.direction \in {"left", "right"} => call.out.height = 4 * h
       /\ (w % 2 = 0 /\ h % 2 = 0) => call.out = stated
       /\ (w = 100 /\ h = 100 /\ call.in.direction = "left") =>
            call.out = [width |-> 4 * 150, height |-> 4 * 100, dx |-> 4 * 50, dy |-> 0]

\* a source of 3 x 100 pixels expanded to the left: the canvas is 4 pixels
\* wide and the original is drawn at x = 1.5
OddWidthExpandedLeft ==
  /\ call.fn = "processImage"
  /\ call.in = [w |-> 3, h |-> 100, direction |-> "left"]
  /\ call.out = [width |-> 16, height |-> 400, dx |-> 6, dy |-> 0]

\* ------------------------------------------------- script analysis
\* What the model call of analyzeScript can give back.  kind: "transport"
\* (generateContent rejects), "empty" (no response text), "unparseable"
\* (JSON.parse throws), "noPanels" (parsed data whose panels is not an
\* array) or "ok".  An item of data.panels carries the panelNumber the
\* model chose and possibly flag fields of its own (flagged).
Item(panelNumber, flagged) == [panelNumber |-> panelNumber, flagged |-> flagged]

Response(kind, items, chars) == [kind |-> kind, items |-> items, characters |-> chars]

AnalysisResult(thrown, panels, chars) ==
  [thrown |-> thrown, panels |-> panels, characters |-> chars]

\* { panels: [], characters: [] }
EmptyResult == AnalysisResult(FALSE, <<>>, <<>>)

\* a spread written after the fixed fields, so that the item's fields win
PanelFromItemWins(item, t, index) ==
  [NewPanel(t, index) EXCEPT !.panelNumber = item.panelNumber,
                             !.isGeneratingImage = item.flagged]

\* { ...item, id, isGeneratingImage: false, isGeneratingVideo: false,
\*   isPlayingAudio: false }
PanelFrom(item, t, index) ==
  [NewPanel(t, index) EXCEPT !.panelNumber = item.panelNumber]

\* analyzeScript, for the response resp arriving at time t
analyzeScript(resp, t) ==
  CASE resp.kind = "transport" -> AnalysisResult(TRUE, <<>>, <<>>)
    [] resp.kind = "empty" -> EmptyResult
    [] resp.kind \in {"unparseable", "noPanels"} -> EmptyResult     \* the catch
    [] OTHER ->
         AnalysisResult(FALSE,
                        [i \in 1..Len(resp.items) |-> PanelFrom(resp.items[i], t, i)],
                        IF resp.characters.some THEN resp.characters.v ELSE <<>>)

Items == {Item(k, f) : k \in {1, 2}, f \in BOOLEAN}

ResponseCharacters == {None, Some(<<Character(<<"A">>, <<"x">>)>>)}

Responses ==
  {Response(kind, <<>>, None) : kind \in {"transport", "empty", "unparseable"}}
  \cup {Response("noPanels", <<>>, chars) : chars \in ResponseCharacters}
  \cup {Response("ok", items, chars) :
          items \in {<<>>} \cup {<<a>> : a \in Items} \cup {<<a, b>> : a, b \in Items},
          chars \in ResponseCharacters}

\* handleAnalyze after the await, for any response.  When analyzeScript
\* throws, nothing after the await runs.
HandleAnalyzeResponse(resp, eager) ==
  /\ analysis = "pending"
  /\ LET r == analyzeScript(resp, stamp + 1)
     IN /\ call' = Call("analyzeScript", resp, r)
        /\ IF r.thrown
           THEN /\ UNCHANGED <<state, past, future, isAnalyzing, base, characters>>
                /\ Observe("analyzeThrow", 0, NoUrl)
           ELSE /\ Commit(resetHistory(setState(Rendered, ByValue(r.panels), eager), eager))
                /\ characters' = r.characters
                /\ isAnalyzing' = FALSE
                /\ base' = r.panels
                /\ Observe("analyze", Len(r.panels), NoUrl)
  /\ analysis' = "idle"
  /\ stamp' = stamp + 1
  /\ fx' = NoFx
  /\ UNCHANGED ops
  /\ UNCHANGED mediaVars
  /\ UNCHANGED <<script, isImporting, upload>>
  /\ UNCHANGED sideVars

\* Analyses with any response, and the image pipeline on their panels.
NextAnalysis ==
  \/ HandleAnalyzeStart
  \/ \E resp \in Responses, eager \in BOOLEAN : HandleAnalyzeResponse(resp, eager)
  \/ \E pid \in PanelIds(state), kind \in ImageKinds, eager \in BOOLEAN :
       HandleImageStart(pid, kind, eager)
  \/ \E pid \in InFlight, url \in {NoUrl} \cup Urls, eager \in BOOLEAN :
       HandleImageSettle(pid, url, eager)

SpecAnalysis == Init /\ [][NextAnalysis]_vars

\* C28: analyzeScript returns { panels: [], characters: [] } and does not
\* throw when the response text is empty or cannot be parsed into the
\* expected structure (also for parsed data without a panels array); on a
\* well-formed response every returned panel has isGeneratingImage,
\* isGeneratingVideo and isPlayingAudio false, and the ids of one result
\* are pairwise distinct.
MalformedGivesEmptyResult ==
  call.fn = "analyzeScript" =>
    /\ call.in.kind \in {"empty", "unparseable", "noPanels"} => call.out = EmptyResult
    /\ call.in.kind = "ok" =>
         /\ ~call.out.thrown
         /\ Len(call.out.panels) = Len(call.in.items)
         /\ \A i \in 1..Len(call.out.panels) :
              /\ ~call.out.panels[i].isGeneratingImage
              /\ ~call.out.panels[i].isGeneratingVideo
              /\ ~call.out.panels[i].isPlayingAudio
         /\ \A i, j \in 1..Len(call.out.panels) :
              i # j => call.out.panels[i].id # call.out.panels[j].id

\* the response of a second analysis had characters and no panels array:
\* the empty result is installed, registry included
MalformedAfterPanels ==
  /\ call.fn = "analyzeScript"
  /\ call.in = Response("noPanels", <<>>, Some(<<Character(<<"A">>, <<"x">>)>>))
  /\ lastOp.name = "analyze"
  /\ state = <<>>
  /\ characters = <<>>
  /\ ~isAnalyzing
  /\ stamp = 2

\* C30: after any script analysis and any later sequence of operations the
\* panels of the current collection are in strictly ascending panelNumber
\* order, whatever panelNumber values the analysis capability returned.
PanelNumbersAscend ==
  \A i, j \in 1..Len(state) : i < j => state[i].panelNumber < state[j].panelNumber

\* ------------------------------------------------- script import
\* A file: its name as the segments between the dots (name.split('.')) and
\* whether its content can be read in the format its extension announces.
File(segments, intact) == [name |-> segments, intact |-> intact]

\* String.prototype.toLowerCase on the segments used
ToLowerCase(seg) ==
  CASE seg = "TXT" -> "txt"
    [] seg = "Pdf" -> "pdf"
    [] seg = "DOCX" -> "docx"
    [] OTHER -> seg

SupportedExtensions == {"txt", "fdx", "pdf"}

\* file.name.split('.').pop()?.toLowerCase()
Extension(file) == ToLowerCase(Last(file.name))

\* the outcome of parseFile: the text, or the message of the error thrown
Parsed(text) == [thrown |-> FALSE, text |-> text, message |-> <<>>]
Failed(message) == [thrown |-> TRUE, text |-> <<>>, message |-> message]

\* a parser that gives empty text for a file it does not know
parseFileQuietly(file) ==
  IF Extension(file) \in SupportedExtensions /\ file.intact
  THEN Parsed(<<"text of ", file.name[1]>>)
  ELSE Parsed(<<>>)

\* parseFile.  A txt file that cannot be read and a pdf that cannot be
\* parsed reject; parseFDX reads whatever Paragraph elements it finds, none
\* in a file that is not Final Draft XML.
parseFile(file) ==
  CASE Extension(file) = "txt" ->
         IF file.intact THEN Parsed(<<"text of ", file.name[1]>>)
                        ELSE Failed(<<"read error">>)
    [] Extension(file) = "fdx" ->
         IF file.intact THEN Parsed(<<"text of ", file.name[1]>>)
                        ELSE Parsed(<<>>)
    [] Extension(file) = "pdf" ->
         IF file.intact THEN Parsed(<<"text of ", file.name[1]>>)
                        ELSE Failed(<<"invalid pdf">>)
    [] OTHER ->
         Failed(<<"Unsupported file extension: .", Extension(file),
                  ". Please upload .txt, .pdf, or .fdx files.">>)

FileNames == {<<"script", "txt">>, <<"script", "TXT">>, <<"script", "Pdf">>,
              <<"script", "fdx">>, <<"script", "DOCX">>, <<"script", "tar", "gz">>,
              <<"script", "">>, <<"notes">>, <<"txt">>}

Files == {File(n, i) : n \in FileNames, i \in BOOLEAN}

ScriptTexts == {<<>>, <<"typed">>}

\* the text area: onChange={(e) => setScript(e.target.value)}
SetScript(text) ==
  /\ script' = text
  /\ Observe("setScript", 0, NoUrl)
  /\ fx' = NoFx
  /\ UNCHANGED <<state, past, future, ops, isAnalyzing, stamp, base>>
  /\ UNCHANGED mediaVars
  /\ UNCHANGED <<characters, isImporting, upload, analysis, call>>
  /\ UNCHANGED sideVars

\* handleFileUpload up to the await, for a chosen file (the import button
\* stays enabled while an import runs; the runs explored have two imports
\* at a time)
HandleFileUpload(file) ==
  /\ Cardinality(upload) < 2
  /\ file \notin upload
  /\ isImporting' = TRUE
  /\ upload' = upload \cup {file}
  /\ Observe("import", 0, NoUrl)
  /\ fx' = NoFx
  /\ UNCHANGED <<state, past, future, ops, isAnalyzing, stamp, base>>
  /\ UNCHANGED mediaVars
  /\ UNCHANGED <<characters, script, analysis, call>>
  /\ UNCHANGED sideVars

\* handleFileUpload after the await: setScript, or the catch with its alert;
\* the finally block
HandleFileUploadSettle(file) ==
  /\ file \in upload
  /\ LET r == parseFile(file)
     IN /\ call' = Call("parseFile", file, r)
        /\ IF r.thrown
           THEN /\ UNCHANGED script
                /\ fx' = Fx("import", 1, 0)
                /\ Observe("importFailed", 0, NoUrl)
           ELSE /\ script' = r.text
                /\ fx' = NoFx
                /\ Observe("imported", 0, NoUrl)
  /\ isImporting' = FALSE
  /\ upload' = upload \ {file}
  /\ UNCHANGED <<state, past, future, ops, isAnalyzing, stamp, base>>
  /\ UNCHANGED mediaVars
  /\ UNCHANGED <<characters, analysis>>
  /\ UNCHANGED sideVars

NextImport ==
  \/ \E text \in ScriptTexts : SetScript(text)
  \/ \E file \in Files : HandleFileUpload(file)
  \/ \E file \in upload : HandleFileUploadSettle(file)

SpecImport == Init /\ [][NextImport]_vars

\* C29: importing a file whose extension, compared case-insensitively, is
\* not txt, fdx or pdf fails with an error that names the offending
\* extension and the supported set, and yields no text; after any failed
\* import the script text is unchanged and isImporting is false.
UnsupportedImportFails ==
  [][ lastOp'.name \in {"imported", "importFailed"} =>
        /\ Extension(call'.in) \notin SupportedExtensions =>
             /\ call'.out.thrown
             /\ call'.out.text = <<>>
             /\ call'.out.message =
                  <<"Unsupported file extension: .", Extension(call'.in),
                    ". Please upload .txt, .pdf, or .fdx files.">>
             /\ lastOp'.name = "importFailed"
        /\ Extension(call'.in) \in SupportedExtensions =>
             call'.out.message # <<"Unsupported file extension: .", Extension(call'.in),
                                   ". Please upload .txt, .pdf, or .fdx files.">>
        /\ lastOp'.name = "importFailed" =>
             /\ call'.out.thrown
             /\ script' = script
             /\ ~isImporting'
             /\ fx'.alerts = 1
    ]_vars

\* the import of script.DOCX has failed with typed text in the text area
UnsupportedImportFailed ==
  /\ lastOp.name = "importFailed"
  /\ call.in.name = <<"script", "DOCX">>
  /\ call.out.message[2] = "docx"
  /\ script = <<"typed">>
  /\ ~isImporting

\* ------------------------------------------------- undo during an image call
\* C32: an undo or redo does not cancel an image call in flight; a later
\* successful settlement writes its result to the panel with the bound id
\* in the collection current at that moment (when the id is there), sets
\* that panel's isGeneratingImage to false and empties future.
UndoDoesNotCancelImageCall ==
  [][ /\ lastOp'.name \in {"undo", "redo"} => ops' = ops
      /\ (lastOp'.name = "settle" /\ lastOp'.url # NoUrl) =>
           /\ future' = <<>>
           /\ state' = ApplyFn(Fn("settleImage", lastOp'.id, lastOp'.url, NoTransition), state)
           /\ lastOp'.id \in PanelIds(state) =>
                /\ PanelOf(state', lastOp'.id).imageUrl = lastOp'.url
                /\ ~PanelOf(state', lastOp'.id).isGeneratingImage
    ]_vars

\* a call settled successfully right after an undo made while it was in
\* flight: the collection the undo put in place got the image
SettledAfterUndo ==
  /\ lastOp.name = "settle"
  /\ lastOp.url # NoUrl
  /\ und.some
  /\ lastOp.id \in PanelIds(state)
  /\ PanelOf(state, lastOp.id).imageUrl = lastOp.url
  /\ ~PanelOf(state, lastOp.id).isGeneratingImage
  /\ future = <<>>
  /\ past # <<>>
  /\ Last(past) # und.v

\* ------------------------------------------------- undo and redo as inverses
\* the triple (current, past, future) after the render that follows an event
TripleAfter(c) == LET r == Render(c) IN <<r.s, r.p, r.f>>

CellsOf(t) == Cells(t[1], t[2], t[3])

\* C37: undo followed at once by redo (past non-empty), and redo followed at
\* once by undo (future non-empty), give back the triple (past, current,
\* future) exactly; undo and redo each keep Len(past) + Len(future).
UndoRedoAreInverse ==
  /\ [](\A e1, e2 \in BOOLEAN :
          /\ past # <<>> =>
               TripleAfter(redo(CellsOf(TripleAfter(undo(Rendered, e1))), e2))
                 = <<state, past, future>>
          /\ future # <<>> =>
               TripleAfter(undo(CellsOf(TripleAfter(redo(Rendered, e1))), e2))
                 = <<state, past, future>>)
  /\ [][ lastOp'.name \in {"undo", "redo"} =>
           Len(past') + Len(future') = Len(past) + Len(future) ]_vars

\* a redo right after an undo, with snapshots left on both sides
RedoneRightAfterUndo ==
  /\ lastOp.name = "redo"
  /\ lastOp.eff
  /\ und.some
  /\ state = und.v
  /\ past # <<>>
  /\ future # <<>>

\* ------------------------------------------------- flags and calls in flight
\* C35: in every reachable state a panel of the current collection whose
\* isGeneratingImage, isGeneratingVideo or isPlayingAudio is true has a call
\* (or playback) of that kind in flight for its id.
FlagHasOperationInFlight ==
  \A i \in DOMAIN state :
    /\ state[i].isGeneratingImage => ops[state[i].id] > 0
    /\ state[i].isGeneratingVideo => vops[state[i].id] > 0
    /\ state[i].isPlayingAudio => audio[state[i].id] # "idle"

\* C36: with no undo or redo in the run, a panel of the current collection
\* with at least one image call in flight has isGeneratingImage = true, also
\* after an earlier overlapping call on the same panel has settled.
OperationInFlightHasFlag ==
  \A i \in DOMAIN state :
    ops[state[i].id] > 0 => state[i].isGeneratingImage

\* ------------------------------------------------- guards of the handlers
EditKinds == {"edit", "outpaint"}

\* an edit handler without the imageUrl guard
HandleEditImageUnguarded(pid, kind, eager) ==
  /\ pid \in PanelIds(state)
  /\ kind \in EditKinds
  /\ setPanels(Fn("flagImage", pid, NoUrl, NoTransition), eager)
  /\ ops' = [ops EXCEPT ![pid] = @ + 1]
  /\ Observe("edit", pid, NoUrl)
  /\ fx' = NoFx
  /\ UNCHANGED <<isAnalyzing, stamp, base>>
  /\ UNCHANGED mediaVars
  /\ UNCHANGED appVars

\* handleEditImage / handleOutpaintImage up to the await, with the early
\* return for a panel without image: if (!panel.imageUrl) return;
HandleEditImage(pid, kind, eager) ==
  /\ pid \in PanelIds(state)
  /\ kind \in EditKinds
  /\ IF PanelOf(state, pid).imageUrl = NoUrl
     THEN /\ UNCHANGED <<state, past, future, ops>>
          /\ Observe("editRefused", pid, NoUrl)
     ELSE /\ setPanels(Fn("flagImage", pid, NoUrl, NoTransition), eager)
          /\ ops' = [ops EXCEPT ![pid] = @ + 1]
          /\ Observe("edit", pid, NoUrl)
  /\ fx' = NoFx
  /\ UNCHANGED <<isAnalyzing, stamp, base>>
  /\ UNCHANGED mediaVars
  /\ UNCHANGED appVars

\* One analysed panel: generation, edit and outpaint, narration, undo, redo.
NextGuards ==
  \/ stamp = 0 /\ HandleAnalyzeStart
  \/ \E eager \in BOOLEAN : HandleAnalyzeDone(1, eager)
  \/ \E pid \in PanelIds(state), eager \in BOOLEAN :
       HandleImageStart(pid, "generate", eager)
  \/ \E pid \in PanelIds(state), kind \in EditKinds, eager \in BOOLEAN :
       InFlight = {} /\ Len(past) < MaxHist /\ HandleEditImage(pid, kind, eager)
  \/ \E pid \in InFlight, url \in {NoUrl} \cup Urls, eager \in BOOLEAN :
       HandleImageSettle(pid, url, eager)
  \/ \E pid \in PanelIds(state), hasText \in BOOLEAN, eager \in BOOLEAN :
       Len(past) < MaxHist /\ HandlePlayAudio(pid, hasText, eager)
  \/ \E pid \in Narrating, outcome \in SpeechOutcomes, eager \in BOOLEAN :
       HandleSpeechResult(pid, outcome, eager)
  \/ \E pid \in Narrating, eager \in BOOLEAN : HandlePlaybackEnded(pid, eager)
  \/ \E eager \in BOOLEAN : Undo(eager)

SpecGuards == Init /\ [][NextGuards]_vars

\* C39: apply-edit and apply-outpaint invoked for a panel without imageUrl,
\* and narration invoked with empty dialogue text, issue no external call,
\* set no flag and record no history entry.
GuardedHandlersAreNoOps ==
  [][ (\/ /\ lastOp'.name \in {"edit", "editRefused"}
          /\ PanelOf(state, lastOp'.id).imageUrl = NoUrl
       \/ lastOp'.name = "playRefused") =>
        /\ state' = state
        /\ past' = past
        /\ future' = future
        /\ ops' = ops
        /\ vops' = vops
        /\ audio' = audio
    ]_vars

\* an edit was refused on a panel whose image an undo had taken away
EditRefused ==
  /\ lastOp.name = "editRefused"
  /\ lastOp.id \in PanelIds(state)
  /\ PanelOf(state, lastOp.id).imageUrl = NoUrl
  /\ ~PanelOf(state, lastOp.id).isGeneratingImage
  /\ future # <<>>

\* ------------------------------------------------- the Character Registry
\* C33: saving a character edit at index i replaces the description of the
\* character at index i by the new text and leaves that character's name,
\* every other character, and the number and order of characters unchanged.
SaveEditsOneDescription ==
  [][ lastOp'.name = "saveCharacterEdit" =>
        LET i == call'.in[1]
            text == call'.in[2]
        IN /\ Len(characters') = Len(characters)
           /\ characters'[i].description = text
           /\ characters'[i].name = characters[i].name
           /\ \A j \in 1..Len(characters) : j # i => characters'[j] = characters[j]
    ]_vars

\* the second of two characters got a description it did not have
SecondCharacterEdited ==
  /\ lastOp.name = "saveCharacterEdit"
  /\ call.fn = "saveCharacterEdit"
  /\ call.in = <<2, <<"y">>>>
  /\ characters = <<Character(<<"A">>, <<"x">>), Character(<<"B">>, <<"y">>)>>

\* the panel whose prompt is composed while the history is moved about: its
\* cached imagePrompt names the first character
RegistryPanel == PromptPanel(<<"A">>, <<"x">>, None)

\* One analysed panel and its character: description edits, generation with
\* its prompt, undo and redo.
NextRegistry ==
  \/ stamp = 0 /\ HandleAnalyzeStart
  \/ \E eager \in BOOLEAN : HandleAnalyzeDone(1, eager)
  \/ \E idx \in 1..Len(characters) : saveCharacterEdit(idx, <<"y">>)
  \/ ComposePrompt(RegistryPanel, "Film Noir")
  \/ \E pid \in PanelIds(state), eager \in BOOLEAN :
       HandleImageStart(pid, "generate", eager)
  \/ \E pid \in InFlight, url \in {NoUrl} \cup Urls, eager \in BOOLEAN :
       HandleImageSettle(pid, url, eager)
  \/ \E eager \in BOOLEAN : Undo(eager)
  \/ \E eager \in BOOLEAN : Redo(eager)

SpecRegistry == Init /\ [][NextRegistry]_vars

\* C34: undo, redo and resetHistory never change the Character Registry: an
\* edited description keeps its value across undo and redo steps, and a
\* prompt composed after an undo is built from the edited description.  (The
\* analysis step, which calls resetHistory, installs the characters of its
\* own result.)
HistoryLeavesRegistryAlone ==
  [][ /\ lastOp'.name \in {"undo", "redo"} => characters' = characters
      /\ lastOp'.name = "analyze" => characters' = AnalysisCharacters(lastOp'.id)
      /\ lastOp'.name = "compose" =>
           /\ call'.in.characters = characters
           /\ call'.out = StructuredPrompt(call'.in.panel, call'.in.style, characters)
    ]_vars

\* a prompt composed right after an undo that took effect, with the
\* description edited before the undo in it
PromptAfterUndoHasEdit ==
  /\ lastOp.name = "compose"
  /\ und.some
  /\ future # <<>>
  /\ characters = <<Character(<<"A">>, <<"y">>)>>
  /\ call.fn = "generatePanelImage"
  /\ Includes(call.out, <<" (", "A", " is ", "y", ")">>)

\* ------------------------------------------------- the end of an analysis
\* one response of each kind: a transport failure, an empty text, output
\* that does not parse, and a result with one panel
EndResponses ==
  {Response(kind, <<>>, None) : kind \in {"transport", "empty", "unparseable"}}
  \cup {Response("ok", <<Item(1, FALSE)>>, None)}

AnalysisResponded == \E resp \in EndResponses, eager \in BOOLEAN : HandleAnalyzeResponse(resp, eager)

NextAnalysisEnd ==
  \/ HandleAnalyzeStart
  \/ AnalysisResponded
  \/ \E pid \in PanelIds(state), eager \in BOOLEAN :
       HandleImageStart(pid, "generate", eager)
  \/ \E pid \in InFlight, url \in {NoUrl} \cup Urls, eager \in BOOLEAN :
       HandleImageSettle(pid, url, eager)

\* The promise of analyzeScript settles, fulfilled or rejected, and the
\* continuation of handleAnalyze (if any) runs: the response step is taken
\* once it is enabled.
SpecAnalysisEnd == Init /\ [][NextAnalysisEnd]_vars /\ WF_vars(AnalysisResponded)

\* C38: every script analysis that is started eventually ends with
\* isAnalyzing = false, whether the external call returns a result, returns
\* malformed output, or throws a transport-level failure.
AnalysisAlwaysEnds == isAnalyzing ~> ~isAnalyzing

\* ------------------------------------------------- polling of a video call
\* what one awaited call of the video capability (generateVideos, and each
\* getVideosOperation) gives: an operation that is not done, one that is
\* done, or an error
PollResults == {"pending", "done", "error"}

\* a polling loop that takes a finished operation for an unfinished one
VideoPollIgnoresDone(pid, result) ==
  /\ poll[pid] \in {"submitted", "polling"}
  /\ poll' = [poll EXCEPT ![pid] = IF result = "error" THEN "thrown" ELSE "waiting"]
  /\ Observe(IF result = "pending" THEN "videoPending"
             ELSE IF result = "done" THEN "videoDone" ELSE "videoError", pid, NoUrl)
  /\ fx' = NoFx
  /\ UNCHANGED <<state, past, future, ops, isAnalyzing, stamp, base>>
  /\ UNCHANGED mediaVars
  /\ UNCHANGED registryVars
  /\ UNCHANGED liveVars

\* generateVideoFromImage at the end of an await of the external call: the
\* test of while (!operation.done) on the operation it returned, or the
\* jump to the catch
VideoPollResult(pid, result) ==
  /\ poll[pid] \in {"submitted", "polling"}
  /\ poll' = [poll EXCEPT ![pid] = CASE result = "pending" -> "waiting"
                                     [] result = "done"    -> "done"
                                     [] OTHER              -> "thrown"]
  /\ Observe(IF result = "pending" THEN "videoPending"
             ELSE IF result = "done" THEN "videoDone" ELSE "videoError", pid, NoUrl)
  /\ fx' = NoFx
  /\ UNCHANGED <<state, past, future, ops, isAnalyzing, stamp, base>>
  /\ UNCHANGED mediaVars
  /\ UNCHANGED registryVars
  /\ UNCHANGED liveVars

\* the 5 s timer of the loop fires and getVideosOperation is called
PollTimer(pid) ==
  /\ poll[pid] = "waiting"
  /\ poll' = [poll EXCEPT ![pid] = "polling"]
  /\ Observe("pollTimer", pid, NoUrl)
  /\ fx' = NoFx
  /\ UNCHANGED <<state, past, future, ops, isAnalyzing, stamp, base>>
  /\ UNCHANGED mediaVars
  /\ UNCHANGED registryVars
  /\ UNCHANGED liveVars

\* the outcomes generateVideoFromImage can end with from where its loop is
PollOutcomes(at) ==
  CASE at = "done"      -> {"uri", "noUri"}
    [] at = "thrown"    -> {"failed", "notFound"}
    [] at = "submitted" -> {"noClient"}
    [] OTHER            -> {}

\* the promise of generateVideoFromImage settles and handleAnimatePanel goes on
VideoSettles(pid) ==
  \E outcome \in PollOutcomes(poll[pid]), url \in Urls, eager \in BOOLEAN :
    HandleAnimateSettle(pid, outcome, url, eager)

\* the external operation comes to an end: a call reports done or throws
VideoEnds(pid) == VideoPollResult(pid, "done") \/ VideoPollResult(pid, "error")

\* Two analysed panels: images, one video call with its polling loop.
NextPolling ==
  \/ stamp = 0 /\ HandleAnalyzeStart
  \/ \E eager \in BOOLEAN : HandleAnalyzeDone(2, eager)
  \/ \E pid \in PanelIds(state), eager \in BOOLEAN :
       InFlight = {} /\ Len(past) < MaxRunHist /\ ImageStart(pid, "generate", eager)
  \/ \E pid \in InFlight, url \in {NoUrl} \cup Urls, eager \in BOOLEAN :
       HandleImageSettle(pid, url, eager)
  \/ \E pid \in PanelIds(state), eager \in BOOLEAN :
       Len(past) < MaxRunHist /\ HandleAnimatePanel(pid, eager)
  \/ \E pid \in VInFlight, result \in PollResults : VideoPollResult(pid, result)
  \/ \E pid \in VInFlight : PollTimer(pid)
  \/ \E pid \in VInFlight : VideoSettles(pid)

\* Timers fire and settled promises run their continuations (weak
\* fairness); the external operation reports done or throws at some poll
\* (strong fairness: the step is enabled at every poll).
SpecPolling ==
  /\ Init /\ [][NextPolling]_vars
  /\ \A pid \in AllIds : WF_vars(PollTimer(pid))
  /\ \A pid \in AllIds : WF_vars(VideoSettles(pid))
  /\ \A pid \in AllIds : SF_vars(VideoEnds(pid))

\* C31: a video generation polls the external operation with a wait between
\* polls during which other operations go on, stops polling at the first
\* poll that reports done, and, the external operation ending at some poll,
\* the panel's isGeneratingVideo eventually becomes false.
PollingStopsAndFlagClears ==
  /\ [][ \A pid \in AllIds :
           /\ poll[pid] \in {"done", "thrown"} => poll'[pid] \in {poll[pid], "idle"}
           /\ poll[pid] = "waiting" => poll'[pid] \in {"waiting", "polling"}
           /\ lastOp'.name \in {"videoPending", "videoDone", "videoError", "pollTimer"} =>
                UNCHANGED <<state, past, future, ops, vops>>
       ]_vars
  /\ \A pid \in AllIds :
       (poll[pid] = "submitted" /\ pid \in PanelIds(state)
          /\ PanelOf(state, pid).isGeneratingVideo)
         ~> (pid \in PanelIds(state) /\ ~PanelOf(state, pid).isGeneratingVideo)

\* the image call of the other panel settled during the wait between two
\* polls of a video call that has been polled already
OtherPanelSettledBetweenPolls ==
  /\ lastOp.name = "settle"
  /\ lastOp.id = 12
  /\ poll[11] = "waiting"
  /\ PanelOf(state, 11).isGeneratingVideo
  /\ PanelOf(state, 12).imageUrl # NoUrl

\* ------------------------------------------------- the live voice session
\* the Start Session button (rendered while not connected).  startSession
\* is the function of the render in which the button was clicked, and the
\* callbacks it hands to ai.live.connect close over that render's isMuted.
\* Without microphone permission getUserMedia throws and the catch alerts.
StartSession(granted) ==
  /\ ~isConnected
  /\ live.status \in {"none", "closed"}
  /\ IF granted
     THEN /\ live' = Session("connecting", isMuted, 0)
          /\ fx' = NoFx
          /\ Observe("startSession", 0, NoUrl)
     ELSE /\ UNCHANGED live
          /\ fx' = Fx("denied", 1, 0)
          /\ Observe("startDenied", 0, NoUrl)
  /\ UNCHANGED <<isMuted, isConnected, poll>>
  /\ UNCHANGED <<state, past, future, ops, isAnalyzing, stamp, base>>
  /\ UNCHANGED mediaVars
  /\ UNCHANGED registryVars

\* callbacks.onopen: setIsConnected(true) and the script processor with its
\* onaudioprocess callback is installed
OnOpen ==
  /\ live.status = "connecting"
  /\ isConnected' = TRUE
  /\ live' = [live EXCEPT !.status = "open"]
  /\ Observe("sessionOpen", 0, NoUrl)
  /\ fx' = NoFx
  /\ UNCHANGED <<isMuted, poll>>
  /\ UNCHANGED <<state, past, future, ops, isAnalyzing, stamp, base>>
  /\ UNCHANGED mediaVars
  /\ UNCHANGED registryVars

\* callbacks.onclose and callbacks.onerror: setIsConnected(false); the audio
\* contexts are left open, so an installed script processor goes on
OnClose ==
  /\ live.status \in {"connecting", "open"}
  /\ isConnected' = FALSE
  /\ live' = IF live.status = "open" THEN [live EXCEPT !.status = "closed"]
             ELSE NoSession
  /\ Observe("sessionClosed", 0, NoUrl)
  /\ fx' = NoFx
  /\ UNCHANGED <<isMuted, poll>>
  /\ UNCHANGED <<state, past, future, ops, isAnalyzing, stamp, base>>
  /\ UNCHANGED mediaVars
  /\ UNCHANGED registryVars

\* the mute button (rendered while connected): setIsMuted(!isMuted)
ToggleMute ==
  /\ isConnected
  /\ isMuted' = ~isMuted
  /\ Observe("toggleMute", 0, NoUrl)
  /\ fx' = NoFx
  /\ UNCHANGED <<isConnected, live, poll>>
  /\ UNCHANGED <<state, past, future, ops, isAnalyzing, stamp, base>>
  /\ UNCHANGED mediaVars
  /\ UNCHANGED registryVars

\* scriptProcessor.onaudioprocess for one buffer of microphone audio:
\* if (isMuted) return; with the isMuted the callback closed over
OnAudioProcess ==
  /\ live.status \in {"open", "closed"}
  /\ live' = IF live.muted THEN live ELSE [live EXCEPT !.sent = @ + 1]
  /\ Observe(IF live.muted THEN "chunkDropped" ELSE "chunkSent", 0, NoUrl)
  /\ fx' = NoFx
  /\ UNCHANGED <<isMuted, isConnected, poll>>
  /\ UNCHANGED <<state, past, future, ops, isAnalyzing, stamp, base>>
  /\ UNCHANGED mediaVars
  /\ UNCHANGED registryVars

\* the End Session button (rendered while connected): the session and the
\* audio contexts are closed
StopSession ==
  /\ isConnected
  /\ isConnected' = FALSE
  /\ live' = NoSession
  /\ Observe("stopSession", 0, NoUrl)
  /\ fx' = NoFx
  /\ UNCHANGED <<isMuted, poll>>
  /\ UNCHANGED <<state, past, future, ops, isAnalyzing, stamp, base>>
  /\ UNCHANGED mediaVars
  /\ UNCHANGED registryVars

NextLive ==
  \/ \E granted \in BOOLEAN : StartSession(granted)
  \/ OnOpen
  \/ OnClose
  \/ ToggleMute
  \/ live.sent < MaxChunks /\ OnAudioProcess
  \/ StopSession

SpecLive == Init /\ [][NextLive]_vars

\* C40: in the live voice session no microphone chunk is sent while the
\* mute toggle is on, and chunks are sent while it is off, whenever the
\* toggle was made: a buffer of microphone audio is sent exactly when
\* isMuted is false.
MuteGatesChunks ==
  [][ lastOp'.name \in {"chunkSent", "chunkDropped"} =>
        /\ isMuted => (lastOp'.name = "chunkDropped" /\ live'.sent = live.sent)
        /\ ~isMuted => (lastOp'.name = "chunkSent" /\ live'.sent = live.sent + 1)
    ]_vars

====
